---- MODULE Spec2Model ----
(***************************************************************************)
(* clayPlotter: the choropleth rendering pipeline of                       *)
(* src/clayPlotter/plotter.py.                                             *)
(*                                                                         *)
(*   Spec      plot_choropleth_from_config, one action per section of the  *)
(*             function (subsets, normalisation, the draw passes, the      *)
(*             insets, the colourbar, the label loops).                    *)
(*   SpecJoin  prepare_geo_data: the country filter and the left merge.    *)
(*   SpecClip  _get_clipped_representative_point on lattice geometries.    *)
(*                                                                         *)
(* Geometry is a set of unit cells of a coarse grid.  Coordinates are      *)
(* counted in units of 1/(2*FracDen) of a coarse cell, so that a clip      *)
(* fraction n/FracDen of a bounding box falls on a lattice line and the    *)
(* centre of every fine cell is an integer point.                          *)
(***************************************************************************)
EXTENDS Integers, Sequences, FiniteSets, TLC

\* ------------------------------------------------------------------ bounds
MaxInsets == 2
MaxValue == 1
FracDen == 4
MaxRows == 3

\* --------------------------------------------------------------- utilities
Range(s) == {s[i] : i \in 1..Len(s)}

SetMin(S) == CHOOSE x \in S : \A y \in S : x <= y

SetMax(S) == CHOOSE x \in S : \A y \in S : x >= y

SeqsUpTo(S, n) == UNION {[1..k -> S] : k \in 0..n}

\* A value cell of a table: {} is NaN (absent), {v} is the number v.
NaN == {}

ValueCells == {NaN} \cup {{v} : v \in 0..MaxValue}

IsNa(cell) == cell = NaN

\* ---------------------------------------------------------------- geometry
\* The polygon of each level-1 region, as coarse cells <<cx, cy>>.
Geometry(code) ==
    CASE code = "A" -> {<<0, 0>>}
      [] code = "B" -> {<<2, 0>>}
      [] code = "C" -> {<<0, 2>>}
      [] OTHER -> {<<4, 0>>}

\* The fine cells <<i, j>> of a geometry: cell <<i, j>> covers the points
\* [2i, 2i+2] x [2j, 2j+2].
FineCells(geometry) ==
    {<<c[1] * FracDen + di, c[2] * FracDen + dj>> :
        c \in geometry, di \in 0..(FracDen - 1), dj \in 0..(FracDen - 1)}

\* geometry.bounds of a set of fine cells: <<minx, miny, maxx, maxy>>.
Bounds(cells) ==
    << SetMin({2 * c[1] : c \in cells}), SetMin({2 * c[2] : c \in cells}),
       SetMax({2 * c[1] + 2 : c \in cells}), SetMax({2 * c[2] + 2 : c \in cells}) >>

CellCentre(c) == <<2 * c[1] + 1, 2 * c[2] + 1>>

\* geometry.representative_point(): some interior point of the geometry.
\* The outcomes are the interior lattice points, the centres of its cells.
RepresentativePoints(cells) == {CellCentre(c) : c \in cells}

\* ------------------------------------- _get_clipped_representative_point
Sides == {"top", "bottom", "left", "right"}

\* A clip_percentage as YAML can give it: a number n/FracDen, null, or text.
Percentage(n) == [kind |-> "num", n |-> n]

NullPercentage == [kind |-> "none", n |-> 0]

TextPercentage == [kind |-> "str", n |-> 0]

\* The clipping rectangle <<x0, y0, x1, y1>> built from the bounding box b
\* for a side and the fraction n/FracDen.
ClipRectangleSwapped(b, clip_side, n) ==
    LET width == b[3] - b[1]
        height == b[4] - b[2]
    IN  CASE clip_side = "bottom" -> <<b[1], b[4] - (height * n) \div FracDen, b[3], b[4]>>
          [] clip_side = "top" -> <<b[1], b[2], b[3], b[2] + (height * n) \div FracDen>>
          [] clip_side = "left" -> <<b[1], b[2], b[1] + (width * n) \div FracDen, b[4]>>
          [] OTHER -> <<b[3] - (width * n) \div FracDen, b[2], b[3], b[4]>>

ClipRectangle(b, clip_side, n) ==
    LET width == b[3] - b[1]
        height == b[4] - b[2]
    IN  CASE clip_side = "top" -> <<b[1], b[4] - (height * n) \div FracDen, b[3], b[4]>>
          [] clip_side = "bottom" -> <<b[1], b[2], b[3], b[2] + (height * n) \div FracDen>>
          [] clip_side = "left" -> <<b[1], b[2], b[1] + (width * n) \div FracDen, b[4]>>
          [] OTHER -> <<b[3] - (width * n) \div FracDen, b[2], b[3], b[4]>>

\* geometry.intersection(clip_poly): the fine cells inside the rectangle.
\* Only the areal part is kept: a rectangle of zero width or height meets
\* the geometry in no cell and the intersection counts as empty.
Intersection(cells, r) ==
    {c \in cells : /\ 2 * c[1] >= r[1] /\ 2 * c[1] + 2 <= r[3]
                   /\ 2 * c[2] >= r[2] /\ 2 * c[2] + 2 <= r[4]}

InRectangle(p, r) == /\ r[1] <= p[1] /\ p[1] <= r[3]
                     /\ r[2] <= p[2] /\ p[2] <= r[4]

\* The midpoints of the cell sides that lie in the rectangle: the points the
\* intersection offers when it is a line along the boundary of the geometry
\* (a clip rectangle of zero width or height).
BoundaryPoints(cells, r) ==
    {p \in UNION {{<<2 * c[1] + 1, 2 * c[2]>>, <<2 * c[1] + 1, 2 * c[2] + 2>>,
                   <<2 * c[1], 2 * c[2] + 1>>, <<2 * c[1] + 2, 2 * c[2] + 1>>} :
                      c \in cells} : InRectangle(p, r)}

\* The outcomes of _get_clipped_representative_point(geometry, clip_side,
\* clip_percentage): the returned point and the branch that returned it.
\*   "invalid_side"  the else branch of the side dispatch (lines 276-278)
\*   "clipped"       the representative point of the intersection (283-289);
\*                   it lies in the intersection, so the centroid
\*                   replacement of lines 286-288 changes nothing here.
\*                   Where the rectangle has no area the intersection is
\*                   either empty or a line on the geometry's boundary.
\*   "empty"         the intersection is empty or invalid (290-292)
\*   "error"         an exception was caught (294-296): arithmetic on a
\*                   clip_percentage that is no number, or a geometric
\*                   operation failing on an invalid geometry
get_clipped_representative_point(geometry, valid, clip_side, clip_percentage) ==
    LET cells == FineCells(geometry)
        Fallback(branch) ==
            {[point |-> p, branch |-> branch] : p \in RepresentativePoints(cells)}
    IN  IF clip_side \notin Sides THEN Fallback("invalid_side")
        ELSE IF clip_percentage.kind # "num" THEN Fallback("error")
        ELSE LET clip_poly == ClipRectangle(Bounds(cells), clip_side, clip_percentage.n)
                 clipped_geom == Intersection(cells, clip_poly)
             IN  (IF clipped_geom # {}
                  THEN {[point |-> p, branch |-> "clipped"] :
                            p \in RepresentativePoints(clipped_geom)}
                  ELSE Fallback("empty")
                       \cup {[point |-> p, branch |-> "clipped"] :
                                 p \in BoundaryPoints(cells, clip_poly)})
                 \cup (IF valid THEN {} ELSE Fallback("error"))

\* ------------------------------------------------------------ render state
VARIABLES
    pc,                    \* the section plot_choropleth_from_config is at
    config,                \* the loaded YAML configuration
    level1_gdf,            \* argument: the level-1 table [columns, rows]
    lakes_gdf,             \* argument: the lakes table
    countries_gdf,         \* argument: the countries table
    neighbors_level1_gdf,  \* argument: the neighbouring level-1 table
    target_l1_gdf,         \* rows of the target countries
    main_view_gdf,         \* rows of the main view
    norm,                  \* the colour normalisation
    zorder_counter,
    main_draws,            \* the plot calls made on main_ax, in call order
    inset_axes_list,       \* the insets created so far
    inset_idx,             \* the inset definition the inset loop is at
    colorbar,              \* the norm handed to the colourbar
    main_labels,           \* the text and annotate calls made on main_ax
    label_idx,             \* the row the main label loop is at
    inset_labels,          \* the text and annotate calls made on inset axes
    last_label,            \* the latest text or annotate call, with its points
    error                  \* the exception that left the function, if any

renderVars == <<pc, config, level1_gdf, lakes_gdf, countries_gdf,
                neighbors_level1_gdf, target_l1_gdf, main_view_gdf, norm,
                zorder_counter, main_draws, inset_axes_list, inset_idx,
                colorbar, main_labels, label_idx, inset_labels, last_label,
                error>>

\* ------------------------------------------------------------- join state
VARIABLES
    join_pc,
    all_level1_gdf,        \* the Natural Earth admin-1 table read from disk
    data_dict,             \* argument: region name -> value
    target_country_codes,  \* argument
    states_gdf             \* the merged target table, or None

joinVars == <<join_pc, all_level1_gdf, data_dict, target_country_codes, states_gdf>>

\* ------------------------------------------------------------- clip state
VARIABLES
    clip_pc,
    clip_args,             \* [geometry, valid, clip_side, clip_percentage]
    clip_result            \* the outcome returned

clipVars == <<clip_pc, clip_args, clip_result>>

\* ------------------------------------------------------------ cache state
VARIABLES
    cache_files,           \* the files of cache_dir: file name -> content
    cache_calls,           \* the number of get_shapefile calls made
    cache_fetched,         \* the URLs a get_shapefile call has returned for
    cache_last             \* the latest get_shapefile call and what it did

cacheVars == <<cache_files, cache_calls, cache_fetched, cache_last>>

\* -------------------------------------------------------------- map state
VARIABLES
    map_storage,          \* map id -> image bytes
    map_ops,               \* the number of MapService operations made
    map_issued,            \* the ids uuid4 has returned
    map_generated,         \* map id -> the bytes a generation stored for it
    open_figures,          \* the figures created and not yet closed
    map_last               \* the latest operation and its outcome

mapVars == <<map_storage, map_ops, map_issued, map_generated, open_figures, map_last>>

\* ----------------------------------------- concurrent get_shapefile state
VARIABLES
    concurrent_calls,      \* caller -> the position and result of its call
    local_path_file        \* the file at local_path, shared by the callers

raceVars == <<concurrent_calls, local_path_file>>

\* ---------------------------------------------------------- service state
VARIABLES
    config_cache,          \* ConfigService._config_cache: key -> mapping
    output_files,          \* the paths the service has written a map to
    svc_ops,               \* the number of service operations made
    svc_last               \* the latest service operation and its outcome

serviceVars == <<config_cache, output_files, svc_ops, svc_last>>

vars == <<renderVars, joinVars, clipVars, cacheVars, mapVars, raceVars, serviceVars>>

\* A table argument that is None.
None == [present |-> FALSE, names |-> {}, crs |-> "", to_crs_ok |-> FALSE,
         has_name_col |-> FALSE, plot_ok |-> TRUE]

\* ------------------------------------------------------------ input tables
TargetCrs == "EPSG:4326"

OtherCrs == "EPSG:3857"

\* One row of the level-1 table.
Row(code, iso, value, valid) ==
    [code |-> code, iso |-> iso, value |-> value, valid |-> valid]

AllColumns == {"geometry", "value", "postal", "iso_a2", "NAME"}

\* A context table (lakes, countries, neighbouring level-1 regions): the
\* names of its rows, its CRS, whether to_crs succeeds on it, whether
\* it has one of the name columns the code looks for and whether plot
\* succeeds on it.
Table(names, crs, to_crs_ok, has_name_col) ==
    [present |-> TRUE, names |-> names, crs |-> crs, to_crs_ok |-> to_crs_ok,
     has_name_col |-> has_name_col, plot_ok |-> TRUE]

\* A table whose plot call raises.
Unplottable(gdf) == [gdf EXCEPT !.plot_ok = FALSE]

\* gdf.plot(...) raises; no plot call of the function is inside a try.
PlotRaises(gdf) == ~gdf.plot_ok

\* gdf is None or gdf.empty
IsMissing(gdf) == ~gdf.present \/ gdf.names = {}

\* gdf.to_crs(target_crs) where the CRS differs: the table to plot, or None
\* when the reprojection raised and was caught.
Reprojected(gdf) ==
    IF gdf.crs = TargetCrs THEN gdf
    ELSE IF gdf.to_crs_ok THEN [gdf EXCEPT !.crs = TargetCrs]
    ELSE None

AfterToCrsInPlace(gdf) == IF gdf.to_crs_ok THEN [gdf EXCEPT !.crs = TargetCrs] ELSE gdf

\* The table the caller holds once gdf.to_crs(target_crs) was called on
\* it: to_crs returns a new table (or raises) and leaves gdf as it was.
AfterToCrs(gdf) == gdf

\* An optional table after the layer section that may reproject it.
AfterLayer(gdf, enabled) ==
    IF enabled /\ ~IsMissing(gdf) /\ gdf.crs # TargetCrs THEN AfterToCrs(gdf) ELSE gdf

\* ----------------------------------------------------------- configuration
Inset(codes, include_lakes) ==
    [codes |-> codes, include_lakes |-> include_lakes, location_ok |-> TRUE]

\* An inset definition whose location makes inset_axes raise.
BadLocation(inset) == [inset EXCEPT !.location_ok = FALSE]

NullCodes == [kind |-> "null", codes |-> {}]

ListCodes(codes) == [kind |-> "list", codes |-> codes]

ScalarCodes == [kind |-> "scalar", codes |-> {}]

\* A clipped_regions entry: absent, a [side, percentage] list, or a value
\* of another shape (a mapping, a longer list).
NoEntry == [shape |-> "absent", side |-> "", percentage |-> NullPercentage]

ListEntry(side, percentage) ==
    [shape |-> "list2", side |-> side, percentage |-> percentage]

MappingEntry == [shape |-> "mapping", side |-> "", percentage |-> NullPercentage]

\* The label settings of one region code: membership of small_regions,
\* the offsets entry (<<>> when the code is no key) and the clipped_regions
\* entry.
LabelRule(small, offset, clip) == [small |-> small, offset |-> offset, clip |-> clip]

PlainRule == LabelRule(FALSE, <<>>, NoEntry)

\* inset_label_handling: the positioning configured for each code, "" for
\* a code that is no key of the mapping.
NoHandling == [c \in {"A", "B", "C"} |-> ""]

Handling(code, positioning) == [NoHandling EXCEPT ![code] = positioning]

BaseConfig ==
    [country_codes |-> {"US"},
     inset_level1_regions |-> <<>>,
     main_level1_codes |-> NullCodes,
     include_neighboring_countries |-> FALSE,
     neighboring_country_codes |-> {},
     include_neighboring_level1 |-> FALSE,
     include_lakes |-> FALSE,
     include_lake_names |-> {},
     add_labels |-> FALSE,
     na_value_text |-> "N/A",
     label_rules |-> [c \in {"A", "B", "C"} |-> PlainRule],
     inset_label_handling |-> NoHandling]


\* ------------------------------------------- plot_choropleth_from_config
\* level1_gdf[level1_gdf[country_code_col].isin(target_country_codes)]
TargetRows(gdf, cfg) == SelectSeq(gdf.rows, LAMBDA r : r.iso \in cfg.country_codes)

\* all_inset_codes: the union of the codes of every inset definition.
AllInsetCodes(inset_cfg) == UNION {inset_cfg[i].codes : i \in 1..Len(inset_cfg)}

MainViewFirstInsetOnly(target, cfg) ==
    IF cfg.main_level1_codes.kind = "null"
    THEN SelectSeq(target, LAMBDA r :
             r.code \notin (IF cfg.inset_level1_regions = <<>> THEN {}
                            ELSE cfg.inset_level1_regions[1].codes))
    ELSE SelectSeq(target, LAMBDA r : r.code \in cfg.main_level1_codes.codes)

\* main_view_gdf: with main_level1_codes null, the target rows whose code
\* is in no inset; with a list, the target rows whose code is in the list.
MainView(target, cfg) ==
    IF cfg.main_level1_codes.kind = "null"
    THEN SelectSeq(target, LAMBDA r : r.code \notin AllInsetCodes(cfg.inset_level1_regions))
    ELSE SelectSeq(target, LAMBDA r : r.code \in cfg.main_level1_codes.codes)

\* The early returns of the validation and subset sections.
Aborts(gdf, cfg) ==
    \/ gdf.rows = <<>>
    \/ "value" \notin gdf.columns
    \/ "postal" \notin gdf.columns
    \/ "iso_a2" \notin gdf.columns
    \/ cfg.country_codes = {}
    \/ TargetRows(gdf, cfg) = <<>>
    \/ cfg.main_level1_codes.kind = "scalar"
    \/ MainView(TargetRows(gdf, cfg), cfg) = <<>>

PrepareSubsets ==
    /\ pc = "start"
    /\ IF Aborts(level1_gdf, config)
       THEN /\ pc' = "returned"
            /\ UNCHANGED <<target_l1_gdf, main_view_gdf>>
       ELSE /\ target_l1_gdf' = TargetRows(level1_gdf, config)
            /\ main_view_gdf' = MainView(TargetRows(level1_gdf, config), config)
            /\ pc' = "normalize"
    /\ UNCHANGED <<raceVars, serviceVars, joinVars, clipVars, cacheVars, mapVars, config, level1_gdf, lakes_gdf, countries_gdf, neighbors_level1_gdf,
                   norm, zorder_counter, main_draws, inset_axes_list, inset_idx,
                   colorbar, main_labels, label_idx, inset_labels, last_label, error>>

\* plt.Normalize(): no bounds set.
DefaultNorm == [scaled |-> FALSE, vmin |-> 0, vmax |-> 0]

PresentValues(rows) == UNION {rows[i].value : i \in 1..Len(rows)}

NormNaAsZero(target) ==
    LET vals == {IF IsNa(target[i].value) THEN 0 ELSE SetMin(target[i].value) :
                     i \in 1..Len(target)}
    IN  [scaled |-> TRUE, vmin |-> SetMin(vals), vmax |-> SetMax(vals)]

\* min_val, max_val over the value column of target_l1_gdf (NaN skipped);
\* both are NaN exactly when no value is present.
Norm(target) ==
    IF PresentValues(target) = {} THEN DefaultNorm
    ELSE [scaled |-> TRUE, vmin |-> SetMin(PresentValues(target)),
          vmax |-> SetMax(PresentValues(target))]

SetupNormalization ==
    /\ pc = "normalize"
    /\ norm' = Norm(target_l1_gdf)
    /\ zorder_counter' = 1
    /\ pc' = "countries"
    /\ UNCHANGED <<raceVars, serviceVars, joinVars, clipVars, cacheVars, mapVars, config, level1_gdf, lakes_gdf, countries_gdf, neighbors_level1_gdf,
                   target_l1_gdf, main_view_gdf, main_draws, inset_axes_list,
                   inset_idx, colorbar, main_labels, label_idx, inset_labels,
                   last_label, error>>

\* One plot call: the layer, its z-order, the features drawn (codes or
\* names), the fill style and the norm handed over.
Draw(layer, zorder, items, style, nrm) ==
    [layer |-> layer, zorder |-> zorder, items |-> items, style |-> style, norm |-> nrm]

Codes(rows) == {rows[i].code : i \in 1..Len(rows)}

\* The countries plotted as neighbours: the rows whose name is in
\* neighboring_country_codes, reprojected; {} when the layer is skipped.
NeighborCountries(gdf, cfg) ==
    IF /\ cfg.include_neighboring_countries
       /\ ~IsMissing(gdf)
       /\ gdf.has_name_col
       /\ cfg.neighboring_country_codes # {}
       /\ gdf.names \cap cfg.neighboring_country_codes # {}
       /\ Reprojected(gdf) # None
    THEN gdf.names \cap cfg.neighboring_country_codes
    ELSE {}

PlotNeighborCountries ==
    /\ pc = "countries"
    /\ LET neighbors == NeighborCountries(countries_gdf, config)
       IN  IF neighbors = {}
           THEN /\ pc' = "neighbors_l1"
                /\ UNCHANGED <<main_draws, zorder_counter, error>>
           ELSE IF PlotRaises(countries_gdf)
           THEN /\ pc' = "raised"
                /\ error' = "PlotError"
                /\ UNCHANGED <<main_draws, zorder_counter>>
           ELSE /\ main_draws' = Append(main_draws,
                        Draw("countries", zorder_counter, neighbors, "context", DefaultNorm))
                /\ zorder_counter' = zorder_counter + 1
                /\ pc' = "neighbors_l1"
                /\ UNCHANGED error
    /\ UNCHANGED <<raceVars, serviceVars, joinVars, clipVars, cacheVars, mapVars, config, level1_gdf, lakes_gdf, countries_gdf, neighbors_level1_gdf,
                   target_l1_gdf, main_view_gdf, norm, inset_axes_list, inset_idx,
                   colorbar, main_labels, label_idx, inset_labels, last_label>>

NeighborLevel1(gdf, cfg) ==
    IF /\ cfg.include_neighboring_level1
       /\ ~IsMissing(gdf)
       /\ Reprojected(gdf) # None
    THEN gdf.names
    ELSE {}

PlotNeighborLevel1 ==
    /\ pc = "neighbors_l1"
    /\ LET neighbors == NeighborLevel1(neighbors_level1_gdf, config)
       IN  IF neighbors = {}
           THEN /\ pc' = "base"
                /\ UNCHANGED <<main_draws, zorder_counter, error>>
           ELSE IF PlotRaises(neighbors_level1_gdf)
           THEN /\ pc' = "raised"
                /\ error' = "PlotError"
                /\ UNCHANGED <<main_draws, zorder_counter>>
           ELSE /\ main_draws' = Append(main_draws,
                        Draw("neighbors_l1", zorder_counter, neighbors, "context", DefaultNorm))
                /\ zorder_counter' = zorder_counter + 1
                /\ pc' = "base"
                /\ UNCHANGED error
    /\ neighbors_level1_gdf' = AfterLayer(neighbors_level1_gdf, config.include_neighboring_level1)
    /\ UNCHANGED <<raceVars, serviceVars, joinVars, clipVars, cacheVars, mapVars, config, level1_gdf, lakes_gdf, countries_gdf,
                   target_l1_gdf, main_view_gdf, norm, inset_axes_list, inset_idx,
                   colorbar, main_labels, label_idx, inset_labels, last_label>>

ZorderAfterBaseSame(z) == z

\* zorder_counter += 1 after the base pass (line 500).
ZorderAfterBase(z) == z + 1

\* Layer 1: every main-view region with the missing colour.
PlotMainBase ==
    /\ pc = "base"
    /\ main_draws' = Append(main_draws,
           Draw("base", zorder_counter, Codes(main_view_gdf), "missing", DefaultNorm))
    /\ zorder_counter' = ZorderAfterBase(zorder_counter)
    /\ pc' = "data"
    /\ UNCHANGED <<raceVars, serviceVars, joinVars, clipVars, cacheVars, mapVars, config, level1_gdf, lakes_gdf, countries_gdf, neighbors_level1_gdf,
                   target_l1_gdf, main_view_gdf, norm, inset_axes_list, inset_idx,
                   colorbar, main_labels, label_idx, inset_labels, last_label, error>>

DropTruthless(rows) == SelectSeq(rows, LAMBDA r : r.value \notin {NaN, {0}})

\* main_view_gdf.dropna(subset=[value_column_name])
DropNa(rows) == SelectSeq(rows, LAMBDA r : ~IsNa(r.value))

\* Layer 2: the main-view regions with data, coloured through cmap and norm.
PlotMainData ==
    /\ pc = "data"
    /\ LET main_view_with_data == DropNa(main_view_gdf)
       IN  IF main_view_with_data # <<>>
           THEN /\ main_draws' = Append(main_draws,
                        Draw("data", zorder_counter, Codes(main_view_with_data), "cmap", norm))
                /\ zorder_counter' = zorder_counter + 1
           ELSE UNCHANGED <<main_draws, zorder_counter>>
    /\ pc' = "lakes"
    /\ UNCHANGED <<raceVars, serviceVars, joinVars, clipVars, cacheVars, mapVars, config, level1_gdf, lakes_gdf, countries_gdf, neighbors_level1_gdf,
                   target_l1_gdf, main_view_gdf, norm, inset_axes_list, inset_idx,
                   colorbar, main_labels, label_idx, inset_labels, last_label, error>>

\* lakes_to_plot on the main map: the reprojected lakes whose name is in
\* include_lake_names; {} when the layer is skipped.
MainLakes(gdf, cfg) ==
    IF /\ cfg.include_lakes
       /\ ~IsMissing(gdf)
       /\ Reprojected(gdf) # None
       /\ cfg.include_lake_names # {}
       /\ gdf.has_name_col
    THEN gdf.names \cap cfg.include_lake_names
    ELSE {}

PlotMainLakes ==
    /\ pc = "lakes"
    /\ LET lakes_to_plot == MainLakes(lakes_gdf, config)
       IN  IF lakes_to_plot = {}
           THEN /\ pc' = "insets"
                /\ UNCHANGED <<main_draws, zorder_counter, error>>
           ELSE IF PlotRaises(lakes_gdf)
           THEN /\ pc' = "raised"
                /\ error' = "PlotError"
                /\ UNCHANGED <<main_draws, zorder_counter>>
           ELSE /\ main_draws' = Append(main_draws,
                        Draw("lakes", zorder_counter, lakes_to_plot, "water", DefaultNorm))
                /\ zorder_counter' = zorder_counter + 1
                /\ pc' = "insets"
                /\ UNCHANGED error
    /\ inset_idx' = 1
    /\ lakes_gdf' = AfterLayer(lakes_gdf, config.include_lakes)
    /\ UNCHANGED <<raceVars, serviceVars, joinVars, clipVars, cacheVars, mapVars, config, level1_gdf, countries_gdf, neighbors_level1_gdf,
                   target_l1_gdf, main_view_gdf, norm, inset_axes_list,
                   colorbar, main_labels, label_idx, inset_labels, last_label>>


\* target_l1_gdf[target_l1_gdf[l1_code_col].isin(inset_codes)]
InsetRows(target, inset) == SelectSeq(target, LAMBDA r : r.code \in inset.codes)

\* The lakes plotted in an inset: every reprojected lake, when the inset
\* asks for lakes; {} when the layer is skipped.
InsetLakes(gdf, inset) ==
    IF /\ inset.include_lakes
       /\ ~IsMissing(gdf)
       /\ Reprojected(gdf) # None
    THEN gdf.names
    ELSE {}

\* The plot calls of one inset: its regions at inset_zorder, coloured
\* through cmap and norm with the missing colour for NaN, and the lakes
\* at inset_zorder + 0.1.  An inset z-order is <<whole, tenths>>.
InsetDraws(inset_gdf, lakes, inset_zorder, nrm) ==
    <<Draw("inset_l1", <<inset_zorder, 0>>, Codes(inset_gdf), "cmap_or_missing", nrm)>>
    \o (IF lakes # {}
        THEN <<Draw("inset_lakes", <<inset_zorder, 1>>, lakes, "water", DefaultNorm)>>
        ELSE <<>>)

\* One pass of the inset loop (lines 589-675): skipped without codes,
\* without rows or when inset_axes raises (caught, line 633); a plot call
\* that raises leaves the function.
CreateInset ==
    /\ pc = "insets"
    /\ inset_idx <= Len(config.inset_level1_regions)
    /\ LET inset == config.inset_level1_regions[inset_idx]
           inset_gdf == InsetRows(target_l1_gdf, inset)
       IN  IF inset.codes = {} \/ inset_gdf = <<>> \/ ~inset.location_ok
           THEN /\ inset_idx' = inset_idx + 1
                /\ UNCHANGED <<inset_axes_list, pc, error>>
           ELSE IF InsetLakes(lakes_gdf, inset) # {} /\ PlotRaises(lakes_gdf)
           THEN /\ pc' = "raised"
                /\ error' = "PlotError"
                /\ UNCHANGED <<inset_axes_list, inset_idx>>
           ELSE /\ inset_axes_list' = Append(inset_axes_list,
                        [codes |-> inset.codes, gdf |-> inset_gdf,
                         draws |-> InsetDraws(inset_gdf, InsetLakes(lakes_gdf, inset),
                                              zorder_counter, norm)])
                /\ inset_idx' = inset_idx + 1
                /\ UNCHANGED <<pc, error>>
    /\ UNCHANGED <<raceVars, serviceVars, joinVars, clipVars, cacheVars, mapVars, config, level1_gdf, lakes_gdf, countries_gdf,
                   neighbors_level1_gdf, target_l1_gdf, main_view_gdf, norm,
                   zorder_counter, main_draws, colorbar, main_labels, label_idx,
                   inset_labels, last_label>>

\* The colourbar (lines 677-684), then the labels if add_labels is set.
AddColorbar ==
    /\ pc = "insets"
    /\ inset_idx > Len(config.inset_level1_regions)
    /\ colorbar' = norm
    /\ pc' = IF config.add_labels THEN "label_main" ELSE "finish"
    /\ label_idx' = 1
    /\ UNCHANGED <<raceVars, serviceVars, joinVars, clipVars, cacheVars, mapVars, config, level1_gdf, lakes_gdf, countries_gdf, neighbors_level1_gdf,
                   target_l1_gdf, main_view_gdf, norm, zorder_counter, main_draws,
                   inset_axes_list, inset_idx, main_labels, inset_labels,
                   last_label, error>>

\* ------------------------------------------------------------------ labels
\* The z-order matplotlib gives a Text or Annotation artist; main_ax.text
\* and main_ax.annotate are called without a zorder (lines 744-750).
TextZorder == 3

RuleOf(cfg, code) ==
    IF code \in DOMAIN cfg.label_rules THEN cfg.label_rules[code] ELSE PlainRule

ValueStrNaBlank(value, cfg) ==
    IF IsNa(value) THEN "" ELSE ToString(SetMin(value))

\* value_str: na_text when pd.isna(value), else the formatted value
\* (lines 709-715 and 764-767).
ValueStr(value, cfg) ==
    IF IsNa(value) THEN cfg.na_value_text ELSE ToString(SetMin(value))

\* label_text = label_format.format(code=region_code, value=value_str)
LabelText(region, cfg) == <<region.code, ValueStr(region.value, cfg)>>

\* The positionings the special inset handling knows (lines 782-794).
Positionings ==
    {"relative_to_largest_polygon", "geometry_centroid", "geometry_representative_point"}

\* handled_specially: inset_label_handling has the code with a positioning
\* that yields an anchor point, so that the label is an annotation.
HandledSpecially(cfg, code) ==
    /\ code \in DOMAIN cfg.inset_label_handling
    /\ cfg.inset_label_handling[code] \in Positionings

AnchorsOffsetFirst(region, rule) ==
    IF rule.clip.shape = "list2" /\ ~(rule.small /\ rule.offset # <<>>)
    THEN {[point |-> o.point, branch |-> o.branch] :
              o \in get_clipped_representative_point(Geometry(region.code), region.valid,
                                                     rule.clip.side, rule.clip.percentage)}
    ELSE {[point |-> p, branch |-> "default"] :
              p \in RepresentativePoints(FineCells(Geometry(region.code)))}

\* The label positions of a main-view region (lines 719-735): from the
\* clipped helper when clipped_regions holds a two-element list for the
\* code, else the representative point of the whole geometry.
Anchors(region, rule) ==
    IF rule.clip.shape = "list2"
    THEN {[point |-> o.point, branch |-> o.branch] :
              o \in get_clipped_representative_point(Geometry(region.code), region.valid,
                                                     rule.clip.side, rule.clip.percentage)}
    ELSE {[point |-> p, branch |-> "default"] :
              p \in RepresentativePoints(FineCells(Geometry(region.code)))}

\* logging.debug(f"... {clip_percentage*100}% ...") on line 726 is
\* evaluated after the helper returned: None * 100 raises TypeError
\* (a string is repeated, a number multiplied).
DebugMessageRaises(rule) ==
    rule.clip.shape = "list2" /\ rule.clip.percentage.kind = "none"

UsesOffsetWithoutSmall(rule) == rule.offset # <<>>

\* region_code in small_regions and region_code in offsets (line 740)
UsesOffset(rule) == rule.small /\ rule.offset # <<>>

NoLabel == [ax |-> "", code |-> "", kind |-> "none", xy |-> <<0, 0>>,
            xytext |-> <<0, 0>>, branch |-> ""]

\* One pass of the main label loop (lines 704-750).
LabelMainRegion ==
    /\ pc = "label_main"
    /\ LET region == main_view_gdf[label_idx]
           rule == RuleOf(config, region.code)
           last == label_idx = Len(main_view_gdf)
       IN  IF DebugMessageRaises(rule)
           THEN /\ pc' = "raised"
                /\ error' = "TypeError"
                /\ UNCHANGED <<main_labels, label_idx, last_label, inset_idx>>
           ELSE \E a \in Anchors(region, rule) :
                /\ main_labels' = Append(main_labels,
                       [code |-> region.code,
                        kind |-> IF UsesOffset(rule) THEN "annotate" ELSE "text",
                        text |-> LabelText(region, config),
                        zorder |-> TextZorder])
                /\ last_label' =
                       [ax |-> "main", code |-> region.code,
                        kind |-> IF UsesOffset(rule) THEN "annotate" ELSE "text",
                        xy |-> a.point,
                        xytext |-> IF UsesOffset(rule)
                                   THEN <<a.point[1] + rule.offset[1],
                                          a.point[2] + rule.offset[2]>>
                                   ELSE a.point,
                        branch |-> a.branch]
                /\ label_idx' = IF last THEN 1 ELSE label_idx + 1
                /\ inset_idx' = IF last THEN 1 ELSE inset_idx
                /\ pc' = IF ~last THEN "label_main"
                         ELSE IF inset_axes_list = <<>> THEN "finish"
                         ELSE "label_insets"
                /\ UNCHANGED error
    /\ UNCHANGED <<raceVars, serviceVars, joinVars, clipVars, cacheVars, mapVars, config, level1_gdf, lakes_gdf, countries_gdf, neighbors_level1_gdf,
                   target_l1_gdf, main_view_gdf, norm, zorder_counter, main_draws,
                   inset_axes_list, colorbar, inset_labels>>

\* One pass of the inset label loops (lines 754-818): an annotation under
\* the special handling, else text at the representative point.
LabelInsetRegion ==
    /\ pc = "label_insets"
    /\ LET inset_gdf == inset_axes_list[inset_idx].gdf
           region == inset_gdf[label_idx]
           last_row == label_idx = Len(inset_gdf)
           last == last_row /\ inset_idx = Len(inset_axes_list)
       IN  \E p \in RepresentativePoints(FineCells(Geometry(region.code))) :
           /\ inset_labels' = Append(inset_labels,
                  [inset |-> inset_idx, code |-> region.code,
                   kind |-> IF HandledSpecially(config, region.code)
                            THEN "annotate" ELSE "text",
                   text |-> LabelText(region, config), zorder |-> TextZorder])
           /\ last_label' = [ax |-> "inset", code |-> region.code,
                             kind |-> IF HandledSpecially(config, region.code)
                                      THEN "annotate" ELSE "text",
                             xy |-> p, xytext |-> p, branch |-> "default"]
           /\ label_idx' = IF last_row THEN 1 ELSE label_idx + 1
           /\ inset_idx' = IF last_row /\ ~last THEN inset_idx + 1 ELSE inset_idx
           /\ pc' = IF last THEN "finish" ELSE "label_insets"
    /\ UNCHANGED <<raceVars, serviceVars, joinVars, clipVars, cacheVars, mapVars, config, level1_gdf, lakes_gdf, countries_gdf, neighbors_level1_gdf,
                   target_l1_gdf, main_view_gdf, norm, zorder_counter, main_draws,
                   inset_axes_list, colorbar, main_labels, error>>

\* tight_layout and plt.show (lines 820-831).
Finish ==
    /\ pc = "finish"
    /\ pc' = "done"
    /\ UNCHANGED <<raceVars, serviceVars, joinVars, clipVars, cacheVars, mapVars, config, level1_gdf, lakes_gdf, countries_gdf, neighbors_level1_gdf,
                   target_l1_gdf, main_view_gdf, norm, zorder_counter, main_draws,
                   inset_axes_list, inset_idx, colorbar, main_labels, label_idx,
                   inset_labels, last_label, error>>

\* ----------------------------------------------------------- render inputs
\* The level-1 table: A, B, C in the US and D in Canada, whose value lies
\* above every US value.
Level1(a, b, c, valid_a) ==
    [columns |-> AllColumns,
     rows |-> <<Row("A", "US", a, valid_a), Row("B", "US", b, TRUE),
                Row("C", "US", c, TRUE), Row("D", "CA", {MaxValue + 1}, TRUE)>>]

Lakes == Table({"Superior", "Michigan"}, TargetCrs, TRUE, TRUE)

Countries == Table({"Canada", "Mexico"}, TargetCrs, TRUE, TRUE)

NeighborsLevel1 == Table({"ON", "QC"}, TargetCrs, TRUE, TRUE)

\* The ways a context table can be handed in.
TableVariants(names) ==
    {None,
     Table({}, TargetCrs, TRUE, TRUE),
     Table(names, TargetCrs, TRUE, TRUE),
     Table(names, OtherCrs, TRUE, TRUE),
     Table(names, OtherCrs, FALSE, TRUE),
     Table(names, TargetCrs, TRUE, FALSE)}

InsetChoices ==
    {Inset({}, FALSE), Inset({"C"}, FALSE), Inset({"B", "C"}, TRUE), Inset({"Z"}, FALSE)}

MainChoices ==
    {NullCodes, ListCodes({"A", "B"}), ListCodes({"A", "C"}), ListCodes({}), ScalarCodes}

RenderStart ==
    /\ pc = "start"
    /\ target_l1_gdf = <<>>
    /\ main_view_gdf = <<>>
    /\ norm = DefaultNorm
    /\ zorder_counter = 0
    /\ main_draws = <<>>
    /\ inset_axes_list = <<>>
    /\ inset_idx = 0
    /\ colorbar = DefaultNorm
    /\ main_labels = <<>>
    /\ label_idx = 0
    /\ inset_labels = <<>>
    /\ last_label = NoLabel
    /\ error = ""

\* Inputs that vary the values, the inset definitions and main_level1_codes.
InitPartition ==
    /\ \E a \in ValueCells, b \in ValueCells, c \in ValueCells :
           level1_gdf = Level1(a, b, c, TRUE)
    /\ \E insets \in SeqsUpTo(InsetChoices, MaxInsets), main \in MainChoices :
           config = [BaseConfig EXCEPT !.inset_level1_regions = insets,
                                       !.main_level1_codes = main]
    /\ lakes_gdf = Lakes
    /\ countries_gdf = None
    /\ neighbors_level1_gdf = None

\* Inputs that vary the country filter and the columns of the table.
InitFilter ==
    /\ \E cols \in {AllColumns, AllColumns \ {"iso_a2"}, AllColumns \ {"postal"},
                    AllColumns \ {"value"}},
          empty \in BOOLEAN :
           level1_gdf = [columns |-> cols,
                         rows |-> IF empty THEN <<>>
                                  ELSE Level1({1}, NaN, {0}, TRUE).rows]
    /\ \E cc \in {{}, {"MX"}, {"CA"}, {"US", "CA"}} :
           config = [BaseConfig EXCEPT !.country_codes = cc,
                                       !.inset_level1_regions = <<Inset({"C"}, FALSE)>>,
                                       !.add_labels = TRUE]
    /\ lakes_gdf = None
    /\ countries_gdf = None
    /\ neighbors_level1_gdf = None

\* An optional layer as configured and handed in: the include flag, the
\* table and the names asked for.  A layer that is off gets the standard
\* table; the table varies with the standard names, and the names with the
\* standard table.
LayerScenarios(standard, names, other_names) ==
    {[flag |-> FALSE, gdf |-> standard, names |-> names]}
    \cup {[flag |-> TRUE, gdf |-> t, names |-> names] : t \in TableVariants(standard.names)}
    \cup {[flag |-> TRUE, gdf |-> standard, names |-> n] : n \in other_names}

\* Inputs that vary the optional layers.
InitLayers ==
    /\ \E a \in {NaN, {1}}, b \in {NaN, {0}} : level1_gdf = Level1(a, b, {1}, TRUE)
    /\ \E c \in LayerScenarios(Countries, {"Canada"}, {{}, {"Atlantis"}}),
          n \in LayerScenarios(NeighborsLevel1, {}, {}),
          l \in LayerScenarios(Lakes, {"Superior"}, {{}, {"Loch Ness"}}),
          insets \in {<<>>, <<Inset({"C"}, TRUE)>>} :
           /\ countries_gdf = c.gdf
           /\ neighbors_level1_gdf = n.gdf
           /\ lakes_gdf = l.gdf
           /\ config = [BaseConfig EXCEPT !.include_neighboring_countries = c.flag,
                                          !.neighboring_country_codes = c.names,
                                          !.include_neighboring_level1 = n.flag,
                                          !.include_lakes = l.flag,
                                          !.include_lake_names = l.names,
                                          !.inset_level1_regions = insets]

ClipSideInputs == Sides \cup {"middle"}

\* The clipped_regions entries tried for region A in the render.
ClipEntries ==
    {NoEntry, MappingEntry}
    \cup {ListEntry(side, pct) :
              side \in {"top", "left", "middle"},
              pct \in {Percentage(1), NullPercentage, TextPercentage}}

\* Inputs that vary the label settings of region A (and of B, C less so).
InitLabels ==
    /\ \E valid_a \in BOOLEAN : level1_gdf = Level1({1}, NaN, {0}, valid_a)
    /\ lakes_gdf = Lakes
    /\ countries_gdf = Countries
    /\ neighbors_level1_gdf = NeighborsLevel1
    /\ \E fc \in BOOLEAN, fn \in BOOLEAN, fl \in BOOLEAN,
          small_a \in BOOLEAN, offset_a \in {<<>>, <<FracDen, FracDen>>},
          clip_a \in ClipEntries,
          rule_b \in {PlainRule, LabelRule(TRUE, <<0 - 2, 1>>, ListEntry("left", Percentage(1)))} :
           config = [BaseConfig EXCEPT
                        !.include_neighboring_countries = fc,
                        !.neighboring_country_codes = {"Canada"},
                        !.include_neighboring_level1 = fn,
                        !.include_lakes = fl,
                        !.include_lake_names = {"Superior"},
                        !.inset_level1_regions = <<Inset({"C"}, FALSE)>>,
                        !.add_labels = TRUE,
                        !.label_rules = [c \in {"A", "B", "C"} |->
                                            IF c = "A" THEN LabelRule(small_a, offset_a, clip_a)
                                            ELSE IF c = "B" THEN rule_b ELSE PlainRule]]

\* Inputs that vary the label texts: the values, the placeholder and the
\* special handling of the inset regions.
InitText ==
    /\ \E b \in ValueCells, c \in ValueCells : level1_gdf = Level1({1}, b, c, TRUE)
    /\ lakes_gdf = None
    /\ countries_gdf = None
    /\ neighbors_level1_gdf = None
    /\ \E insets \in {<<>>, <<Inset({"C"}, FALSE)>>, <<Inset({"B", "C"}, FALSE)>>,
                       <<Inset({"B"}, FALSE), Inset({"C"}, FALSE)>>},
          add_labels \in BOOLEAN, na_text \in {"N/A", "-"},
          handling \in {NoHandling, Handling("C", "geometry_centroid"),
                        Handling("C", "nearest_corner")} :
           config = [BaseConfig EXCEPT !.inset_level1_regions = insets,
                                       !.add_labels = add_labels,
                                       !.na_value_text = na_text,
                                       !.inset_label_handling = handling]

\* The ways an optional layer can fail: not at all, in to_crs, in plot.
FailureVariants(standard) ==
    {standard, Table(standard.names, OtherCrs, FALSE, TRUE), Unplottable(standard)}

\* Inputs that vary the failures of the optional layers and of an inset.
InitFailures ==
    /\ level1_gdf = Level1({1}, NaN, {0}, TRUE)
    /\ countries_gdf \in FailureVariants(Countries)
    /\ neighbors_level1_gdf \in FailureVariants(NeighborsLevel1)
    /\ lakes_gdf \in FailureVariants(Lakes)
    /\ \E insets \in {<<Inset({"C"}, TRUE)>>,
                       <<BadLocation(Inset({"B"}, FALSE)), Inset({"C"}, FALSE)>>},
          main_lakes \in BOOLEAN :
           config = [BaseConfig EXCEPT
                        !.include_neighboring_countries = TRUE,
                        !.neighboring_country_codes = {"Canada"},
                        !.include_neighboring_level1 = TRUE,
                        !.include_lakes = main_lakes,
                        !.include_lake_names = {"Superior"},
                        !.inset_level1_regions = insets,
                        !.add_labels = TRUE]

RenderInit ==
    /\ RenderStart
    /\ (InitPartition \/ InitFilter \/ InitLayers \/ InitLabels \/ InitText
        \/ InitFailures)

\* The render is not running.
RenderIdle ==
    /\ pc = "idle"
    /\ config = BaseConfig
    /\ level1_gdf = [columns |-> {}, rows |-> <<>>]
    /\ lakes_gdf = None
    /\ countries_gdf = None
    /\ neighbors_level1_gdf = None
    /\ target_l1_gdf = <<>>
    /\ main_view_gdf = <<>>
    /\ norm = DefaultNorm
    /\ zorder_counter = 0
    /\ main_draws = <<>>
    /\ inset_axes_list = <<>>
    /\ inset_idx = 0
    /\ colorbar = DefaultNorm
    /\ main_labels = <<>>
    /\ label_idx = 0
    /\ inset_labels = <<>>
    /\ last_label = NoLabel
    /\ error = ""


\* -------------------------------------------------------- prepare_geo_data
\* A row of the admin-1 table: its name and its country code.
GeoRow(name, iso) == [name |-> name, iso_a2 |-> iso]

\* list(data_dict.items()) as the rows of data_df: each key once.
DictItems(d) ==
    CHOOSE s \in [1..Cardinality(DOMAIN d) -> {<<k, d[k]>> : k \in DOMAIN d}] :
        Range(s) = {<<k, d[k]>> : k \in DOMAIN d}

\* all_level1_gdf[all_level1_gdf['iso_a2'].isin(target_country_codes)]
FilterTarget(rows, codes) == SelectSeq(rows, LAMBDA r : r.iso_a2 \in codes)

Merged(row, value) == [name |-> row.name, iso_a2 |-> row.iso_a2, value |-> value]

\* The rows a left row yields in a left merge on the name: one per matching
\* row of data_df, or one with NaN when none matches.
MergeRow(row, data_df) ==
    LET hits == SelectSeq(data_df, LAMBDA it : it[1] = row.name)
    IN  IF hits = <<>> THEN <<Merged(row, NaN)>>
        ELSE [j \in 1..Len(hits) |-> Merged(row, {hits[j][2]})]

RECURSIVE MergeInner(_, _)
MergeInner(left, data_df) ==
    IF left = <<>> THEN <<>>
    ELSE LET hits == SelectSeq(data_df, LAMBDA it : it[1] = Head(left).name)
         IN  [j \in 1..Len(hits) |-> Merged(Head(left), {hits[j][2]})]
             \o MergeInner(Tail(left), data_df)

\* states_gdf_subset.merge(data_df, on='NAME', how='left')
RECURSIVE MergeLeft(_, _)
MergeLeft(left, data_df) ==
    IF left = <<>> THEN <<>>
    ELSE MergeRow(Head(left), data_df) \o MergeLeft(Tail(left), data_df)

NoTable == [is_none |-> TRUE, rows |-> <<>>]

\* The states section of prepare_geo_data (lines 41-180): ValueError for an
\* empty dictionary; None when the file cannot be read, when no row is of a
\* target country or when no name column is found; else the merged table.
PrepareGeoData ==
    /\ join_pc = "start"
    /\ IF DOMAIN data_dict = {}
       THEN join_pc' = "raised" /\ UNCHANGED states_gdf
       ELSE /\ join_pc' = "returned"
            /\ states_gdf' =
                   IF \/ all_level1_gdf.source # "ok"
                      \/ FilterTarget(all_level1_gdf.rows, target_country_codes) = <<>>
                   THEN NoTable
                   ELSE [is_none |-> FALSE,
                         rows |-> MergeLeft(FilterTarget(all_level1_gdf.rows,
                                                         target_country_codes),
                                            DictItems(data_dict))]
    /\ UNCHANGED <<raceVars, serviceVars, renderVars, clipVars, cacheVars, mapVars, all_level1_gdf, data_dict, target_country_codes>>

GeoNames == {"Ohio", "Texas"}

\* The keys a value dictionary may use: the names as the geometry has
\* them, a name with a leading space, and a name the geometry lacks.
DictKeys == {"Ohio", " Ohio", "Texas", "Narnia"}

\* data_dict: a mapping of some keys to numbers.
DataDicts == UNION {[K -> 0..MaxValue] : K \in SUBSET DictKeys}

JoinInit ==
    /\ join_pc = "start"
    /\ \E rows \in SeqsUpTo({GeoRow(n, c) : n \in GeoNames, c \in {"US", "CA"}}, MaxRows),
          source \in {"ok", "no_name_column", "unreadable"} :
           all_level1_gdf = [source |-> source, rows |-> rows]
    /\ data_dict \in DataDicts
    /\ target_country_codes \in {{"US"}, {"MX"}}
    /\ states_gdf = NoTable

JoinIdle ==
    /\ join_pc = "idle"
    /\ all_level1_gdf = [source |-> "ok", rows |-> <<>>]
    /\ data_dict = <<>>
    /\ target_country_codes = {}
    /\ states_gdf = NoTable

\* -------------------------------------------------------------- clip calls
ClipGeometries == (SUBSET {<<0, 0>>, <<1, 0>>, <<0, 1>>, <<1, 1>>}) \ {{}}

PercentageInputs ==
    {Percentage(n) : n \in 0..FracDen} \cup {NullPercentage, TextPercentage}

ClipInit ==
    /\ clip_pc = "start"
    /\ clip_args \in [geometry : ClipGeometries, valid : BOOLEAN,
                      clip_side : ClipSideInputs, clip_percentage : PercentageInputs]
    /\ clip_result = [point |-> <<0, 0>>, branch |-> ""]

ClipIdle ==
    /\ clip_pc = "idle"
    /\ clip_args = [geometry |-> {}, valid |-> TRUE, clip_side |-> "",
                    clip_percentage |-> NullPercentage]
    /\ clip_result = [point |-> <<0, 0>>, branch |-> ""]

\* One call of _get_clipped_representative_point.
CallClipped ==
    /\ clip_pc = "start"
    /\ clip_result' \in get_clipped_representative_point(
                            clip_args.geometry, clip_args.valid,
                            clip_args.clip_side, clip_args.clip_percentage)
    /\ clip_pc' = "returned"
    /\ UNCHANGED <<raceVars, serviceVars, renderVars, joinVars, cacheVars, mapVars, clip_args>>

\* ------------------------------------------- GeoDataManager.get_shapefile
MaxCalls == 3

\* A URL: its host, the segments of its path (a trailing slash gives a
\* last segment "") and its query.
Url(host, path, query) == [host |-> host, path |-> path, query |-> query]

Urls ==
    {Url("a.org", <<"ne", "admin1.zip">>, ""),
     Url("a.org", <<"ne", "admin1.zip">>, "v=2"),
     Url("b.org", <<"admin1.zip">>, ""),
     Url("a.org", <<"ne", "lakes.zip">>, ""),
     Url("a.org", <<"ne", "">>, "")}

\* os.path.basename(urlparse(url).path): the last segment of the path.
get_filename_from_url(url) ==
    IF url.path = <<>> THEN "" ELSE url.path[Len(url.path)]

CacheDir == "cache_dir"

\* self.cache_dir / filename
LocalPath(filename) == <<CacheDir, filename>>

NoPath == <<"", "">>

NoFile == [exists |-> FALSE, content |-> ""]

File(content) == [exists |-> TRUE, content |-> content]

\* response.content of a successful requests.get(url).
Content(url) == url.host

CacheHitNever(files, filename) == FALSE

\* local_path.exists()
CacheHit(files, filename) == files[filename].exists

\* What the download of a missing file can do: succeed; fail in
\* requests.get or raise_for_status; fail in write_bytes leaving no file,
\* or leaving a file that unlink removes, or one that unlink cannot remove.
DownloadOutcomes ==
    {"ok", "request_error", "write_error", "write_error_unlinked", "write_error_unlink_failed"}

NoCall == [url |-> Url("", <<>>, ""), existed |-> FALSE, fetched_before |-> FALSE,
           downloads |-> 0, wrote |-> FALSE, outcome |-> "", path |-> NoPath]

\* One call of get_shapefile(url) (lines 45-91).
GetShapefile ==
    /\ cache_calls < MaxCalls
    /\ \E url \in Urls, download \in DownloadOutcomes :
         LET filename == get_filename_from_url(url)
             call == [NoCall EXCEPT !.url = url,
                                    !.fetched_before = url \in cache_fetched]
         IN  IF filename = ""
             THEN /\ cache_last' = [call EXCEPT !.outcome = "ValueError"]
                  /\ UNCHANGED <<cache_files, cache_fetched>>
             ELSE IF CacheHit(cache_files, filename)
             THEN /\ cache_last' = [call EXCEPT !.existed = cache_files[filename].exists,
                                                !.outcome = "returned",
                                                !.path = LocalPath(filename)]
                  /\ cache_fetched' = cache_fetched \cup {url}
                  /\ UNCHANGED cache_files
             ELSE IF download = "ok"
             THEN /\ cache_files' = [cache_files EXCEPT ![filename] = File(Content(url))]
                  /\ cache_last' = [call EXCEPT !.existed = cache_files[filename].exists,
                                                !.downloads = 1,
                                                !.wrote = TRUE,
                                                !.outcome = "returned",
                                                !.path = LocalPath(filename)]
                  /\ cache_fetched' = cache_fetched \cup {url}
             ELSE /\ cache_files' =
                         IF download = "write_error_unlink_failed"
                         THEN [cache_files EXCEPT ![filename] = File("incomplete")]
                         ELSE IF cache_files[filename].exists
                         THEN [cache_files EXCEPT ![filename] = NoFile]
                         ELSE cache_files
                  /\ cache_last' = [call EXCEPT !.existed = cache_files[filename].exists,
                                                !.downloads = 1,
                                                !.wrote = download # "request_error",
                                                !.outcome = "raised"]
                  /\ UNCHANGED cache_fetched
    /\ cache_calls' = cache_calls + 1
    /\ UNCHANGED <<raceVars, serviceVars, renderVars, joinVars, clipVars, mapVars>>

Filenames == {"admin1.zip", "lakes.zip"}

\* The cache directory at construction: any of the files may be there.
CacheInit ==
    /\ cache_files \in [Filenames -> {NoFile, File("earlier")}]
    /\ cache_calls = 0
    /\ cache_fetched = {}
    /\ cache_last = NoCall

CacheIdle ==
    /\ cache_files = [f \in Filenames |-> NoFile]
    /\ cache_calls = 0
    /\ cache_fetched = {}
    /\ cache_last = NoCall

\* ------------------------------------------------------------- MapService
MaxOps == 3

\* The values uuid4 can return, and an id it never returns.
MapIds == 1..MaxOps

QueryIds == 0..MaxOps

\* The PNG bytes a savefig can leave in the buffer.
Images == {<<137>>, <<137, 80>>, <<137, 80, 78>>, <<255, 216, 255, 0>>}

NotStored == [present |-> FALSE, bytes |-> <<>>]

Stored(bytes) == [present |-> TRUE, bytes |-> bytes]

\* The base64 alphabet, then the padding character.
Base64Alphabet ==
    <<
      "A", "B", "C", "D", "E", "F", "G", "H", "I", "J", "K", "L", "M", "N", "O", "P",
      "Q", "R", "S", "T", "U", "V", "W", "X", "Y", "Z", "a", "b", "c", "d", "e", "f",
      "g", "h", "i", "j", "k", "l", "m", "n", "o", "p", "q", "r", "s", "t", "u", "v",
      "w", "x", "y", "z", "0", "1", "2", "3", "4", "5", "6", "7", "8", "9", "+", "/",
      "=">>

\* The four characters of one group of up to three bytes.
Base64Group(group) ==
    LET sextets ==
            IF Len(group) = 3
            THEN LET n == group[1] * 65536 + group[2] * 256 + group[3]
                 IN  <<n \div 262144, (n \div 4096) % 64, (n \div 64) % 64, n % 64>>
            ELSE IF Len(group) = 2
            THEN LET n == (group[1] * 256 + group[2]) * 4
                 IN  <<n \div 4096, (n \div 64) % 64, n % 64, 64>>
            ELSE LET n == group[1] * 16
                 IN  <<n \div 64, n % 64, 64, 64>>
    IN  [i \in 1..4 |-> Base64Alphabet[sextets[i] + 1]]

\* base64.b64encode(image_data).decode('utf-8'), as a sequence of characters.
RECURSIVE b64encode(_)
b64encode(bytes) ==
    IF bytes = <<>> THEN <<>>
    ELSE IF Len(bytes) <= 3 THEN Base64Group(bytes)
    ELSE Base64Group(SubSeq(bytes, 1, 3)) \o b64encode(SubSeq(bytes, 4, Len(bytes)))

\* What the collaborators of generate_map_internal can do: all succeed, or
\* the ChoroplethPlotter constructor, plotter.plot or plt.savefig raises
\* the exception the code names for it or another one.
GenerationOutcomes ==
    {"ok", "init_ValueError", "init_Exception", "plot_RuntimeError", "plot_Exception",
     "savefig_OSError", "savefig_Exception"}

\* fig is bound: plotter.plot returned.
FigureCreated(outcome) == outcome \in {"ok", "savefig_OSError", "savefig_Exception"}

StoreReachedBeforeSave(outcome) == FigureCreated(outcome)

\* The assignment to _map_storage on line 69 is reached: nothing before
\* it raised.
StoreReached(outcome) == outcome = "ok"

\* finally: if fig: plt.close(fig)
ClosedInFinally(fig_created) == fig_created

FoundAlways(storage, map_id) == TRUE

\* map_id in _map_storage
Found(storage, map_id) == storage[map_id].present

NoOp == [op |-> "", map_id |-> 0, collaborators |-> "", outcome |-> "",
         bytes |-> <<>>, media_type |-> "", text |-> <<>>]

\* What generate_map_internal does (lines 41-89) when uuid4 gives map_id,
\* the collaborators behave as outcome says and savefig leaves image.
generate_map_internal(map_id, outcome, image) ==
    /\ map_issued' = map_issued \cup {map_id}
    /\ map_storage' = IF StoreReached(outcome)
                      THEN [map_storage EXCEPT ![map_id] = Stored(image)]
                      ELSE map_storage
    /\ map_generated' = IF outcome = "ok"
                        THEN [map_generated EXCEPT ![map_id] = Stored(image)]
                        ELSE map_generated
    /\ open_figures' = open_figures
                          + (IF FigureCreated(outcome) THEN 1 ELSE 0)
                          - (IF ClosedInFinally(FigureCreated(outcome)) THEN 1 ELSE 0)
    /\ map_last' = [NoOp EXCEPT
                       !.op = "generate_map_internal",
                       !.map_id = map_id,
                       !.collaborators = outcome,
                       !.outcome = IF outcome = "ok" THEN "returned"
                                   ELSE "MapGenerationError",
                       !.bytes = IF outcome = "ok" THEN image ELSE <<>>]

\* One call of generate_map_internal (lines 41-89).
GenerateMapInternal ==
    /\ map_ops < MaxOps
    /\ \E map_id \in MapIds \ map_issued, outcome \in GenerationOutcomes, image \in Images :
         /\ outcome # "ok" => image = <<137>>
         /\ generate_map_internal(map_id, outcome, image)
    /\ map_ops' = map_ops + 1
    /\ UNCHANGED <<raceVars, serviceVars, renderVars, joinVars, clipVars, cacheVars>>

\* One call of get_map_image (lines 363-371).
GetMapImage ==
    /\ map_ops < MaxOps
    /\ \E map_id \in QueryIds :
         map_last' = IF Found(map_storage, map_id)
                     THEN [NoOp EXCEPT !.op = "get_map_image", !.map_id = map_id,
                                       !.outcome = "returned",
                                       !.bytes = map_storage[map_id].bytes,
                                       !.media_type = "image/png"]
                     ELSE [NoOp EXCEPT !.op = "get_map_image", !.map_id = map_id,
                                       !.outcome = "ResourceNotFoundError"]
    /\ map_ops' = map_ops + 1
    /\ UNCHANGED <<raceVars, serviceVars, renderVars, joinVars, clipVars, cacheVars, map_storage, map_issued,
                   map_generated, open_figures>>

\* One call of get_map_image_base64 (lines 373-379).
GetMapImageBase64 ==
    /\ map_ops < MaxOps
    /\ \E map_id \in QueryIds :
         map_last' = IF Found(map_storage, map_id)
                     THEN [NoOp EXCEPT !.op = "get_map_image_base64", !.map_id = map_id,
                                       !.outcome = "returned",
                                       !.text = b64encode(map_storage[map_id].bytes)]
                     ELSE [NoOp EXCEPT !.op = "get_map_image_base64", !.map_id = map_id,
                                       !.outcome = "ResourceNotFoundError"]
    /\ map_ops' = map_ops + 1
    /\ UNCHANGED <<raceVars, serviceVars, renderVars, joinVars, clipVars, cacheVars, map_storage, map_issued,
                   map_generated, open_figures>>

\* The module as imported: _map_storage = {}.
MapInit ==
    /\ map_storage = [i \in QueryIds |-> NotStored]
    /\ map_ops = 0
    /\ map_issued = {}
    /\ map_generated = [i \in QueryIds |-> NotStored]
    /\ open_figures = 0
    /\ map_last = NoOp

MapIdle ==
    /\ map_storage = [i \in QueryIds |-> NotStored]
    /\ map_ops = MaxOps
    /\ map_issued = {}
    /\ map_generated = [i \in QueryIds |-> NotStored]
    /\ open_figures = 0
    /\ map_last = NoOp

\* ------------------------------- get_shapefile called by several callers
MaxCallers == 3

Callers == 1..MaxCallers

\* The URL that every caller asks for.
SharedUrl == Url("a.org", <<"ne", "admin1.zip">>, "")

\* A call that has not started; one at the start of get_shapefile.  linked
\* tells whether the file the call has open is still the one at local_path.
NoCaller == [at |-> "idle", hit |-> FALSE, saw |-> "", linked |-> FALSE]

NewCaller == [NoCaller EXCEPT !.at = "check"]

\* The callers other than p that have the file at local_path open.
OtherWriters(p) ==
    {q \in Callers \ {p} : concurrent_calls[q].at = "writing" /\ concurrent_calls[q].linked}

\* local_path.unlink() by caller p: the name is removed, and the callers
\* that are writing keep writing to a file that is no longer at local_path.
Unlinked(p, at) ==
    [q \in Callers |->
        IF q = p THEN [concurrent_calls[q] EXCEPT !.at = at, !.linked = FALSE]
        ELSE [concurrent_calls[q] EXCEPT !.linked = FALSE]]

\* if local_path.exists(): return local_path (lines 62-64).
CheckExists ==
    \E p \in Callers :
      /\ concurrent_calls[p].at = "check"
      /\ concurrent_calls' =
            [concurrent_calls EXCEPT ![p] =
                IF local_path_file.exists
                THEN [@ EXCEPT !.at = "returned", !.hit = TRUE,
                               !.saw = local_path_file.content]
                ELSE [@ EXCEPT !.at = "download"]]
      /\ UNCHANGED <<renderVars, joinVars, clipVars, cacheVars, mapVars, serviceVars,
                     local_path_file>>

\* requests.get and raise_for_status (lines 70-71); on a RequestException
\* the handler unlinks an existing local_path, if it can, and re-raises
\* (78-86).
Download ==
    \E p \in Callers, request_ok \in BOOLEAN, unlink_ok \in BOOLEAN :
      /\ concurrent_calls[p].at = "download"
      /\ request_ok => unlink_ok
      /\ IF request_ok
         THEN /\ concurrent_calls' = [concurrent_calls EXCEPT ![p].at = "write"]
              /\ UNCHANGED local_path_file
         ELSE IF local_path_file.exists /\ unlink_ok
         THEN /\ concurrent_calls' = Unlinked(p, "raised")
              /\ local_path_file' = NoFile
         ELSE /\ concurrent_calls' = [concurrent_calls EXCEPT ![p].at = "raised"]
              /\ UNCHANGED local_path_file
      /\ UNCHANGED <<renderVars, joinVars, clipVars, cacheVars, mapVars, serviceVars>>

\* local_path.write_bytes opens the file for writing (line 74): the file is
\* created, or truncated, and holds only a part of the content until the
\* write ends.
BeginWrite ==
    \E p \in Callers :
      /\ concurrent_calls[p].at = "write"
      /\ concurrent_calls' = [concurrent_calls EXCEPT ![p].at = "writing",
                                                      ![p].linked = TRUE]
      /\ local_path_file' = File("incomplete")
      /\ UNCHANGED <<renderVars, joinVars, clipVars, cacheVars, mapVars, serviceVars>>

\* write_bytes ends and the call returns local_path (lines 74-77).  While
\* another caller is writing the same file, what the file holds afterwards
\* depends on how the two writes overlap.
FinishWrite ==
    \E p \in Callers, content \in {Content(SharedUrl), "incomplete"} :
      /\ concurrent_calls[p].at = "writing"
      /\ (content = "incomplete") => (concurrent_calls[p].linked /\ OtherWriters(p) # {})
      /\ concurrent_calls' = [concurrent_calls EXCEPT ![p].at = "returned"]
      /\ local_path_file' = IF concurrent_calls[p].linked THEN File(content)
                            ELSE local_path_file
      /\ UNCHANGED <<renderVars, joinVars, clipVars, cacheVars, mapVars, serviceVars>>

\* write_bytes raises: the handler unlinks an existing local_path, if it
\* can, and re-raises (lines 87-94).
FailWrite ==
    \E p \in Callers, unlink_ok \in BOOLEAN :
      /\ concurrent_calls[p].at = "writing"
      /\ IF local_path_file.exists /\ unlink_ok
         THEN /\ concurrent_calls' = Unlinked(p, "raised")
              /\ local_path_file' = NoFile
         ELSE /\ concurrent_calls' = [concurrent_calls EXCEPT ![p].at = "raised"]
              /\ UNCHANGED local_path_file
      /\ UNCHANGED <<renderVars, joinVars, clipVars, cacheVars, mapVars, serviceVars>>

\* Every caller is about to call get_shapefile(SharedUrl); the file may be
\* in the cache directory already.
RaceInit ==
    /\ concurrent_calls = [p \in Callers |-> NewCaller]
    /\ local_path_file \in {NoFile, File("earlier")}

RaceIdle ==
    /\ concurrent_calls = [p \in Callers |-> NoCaller]
    /\ local_path_file = NoFile

\* ---------------------------------------------------------- ConfigService
MaxRequests == 3

\* Two of the keys of _available_keys, and a key that is not in it.
AvailableKeys == {"usa_states", "canada_provinces"}

Keys == AvailableKeys \cup {"atlantis"}

\* A mapping is the set of its <<key, value>> items.
\* What yaml.safe_load gives for the resource file <key>.yaml.
Parsed(key) == {<<"geopackage_path", key>>, <<"location_id_col", "id">>}

NotCached == [present |-> FALSE, mapping |-> {}]

CachedEntry(mapping) == [present |-> TRUE, mapping |-> mapping]

\* What loading <key>.yaml can do: give a mapping; is_file() is false;
\* the resource path, the parser or the read raises; the document is not
\* a mapping.
FileOutcomes ==
    {"ok", "not_a_file", "FileNotFoundError", "YAMLError", "OSError", "not_a_dict"}

CachedNever(cache, key) == FALSE

\* key in self._config_cache
Cached(cache, key) == cache[key].present

\* get_configuration(key) on a service whose cache is cache (lines 107-160):
\* the outcome, whether the file was looked for, the mapping returned and
\* the cache afterwards.
get_configuration(cache, key, file) ==
    IF key \notin AvailableKeys
    THEN [outcome |-> "ValidationError", read_file |-> FALSE, result |-> {}, cache |-> cache]
    ELSE IF Cached(cache, key)
    THEN [outcome |-> "returned", read_file |-> FALSE, result |-> cache[key].mapping,
          cache |-> cache]
    ELSE IF file = "ok"
    THEN [outcome |-> "returned", read_file |-> TRUE, result |-> Parsed(key),
          cache |-> [cache EXCEPT ![key] = CachedEntry(Parsed(key))]]
    ELSE [outcome |-> "ConfigurationError", read_file |-> TRUE, result |-> {}, cache |-> cache]

\* The keys a custom configuration can carry.
CustomKeys ==
    {"title", "geopackage_path", "geopackage_layer", "geo_join_column",
     "location_id_col", "location_name_col"}

\* A YAML text: malformed, or a document that is a list, null or a mapping
\* with some keys.
Document(kind, keys) == [kind |-> kind, keys |-> keys]

Documents ==
    {Document(kind, {}) : kind \in {"malformed", "list", "null"}}
        \cup {Document("mapping", keys) : keys \in SUBSET CustomKeys}

\* yaml.safe_load of a mapping document.
SafeLoad(doc) == {<<k, "v">> : k \in doc.keys}

required_keys == {"geopackage_path", "geo_join_column", "location_id_col", "location_name_col"}

\* validate_custom_configuration(config_yaml) (lines 162-196).
validate_custom_configuration(doc) ==
    IF doc.kind = "malformed"
    THEN [outcome |-> "ValidationError", message |-> "Invalid YAML format in custom configuration",
          missing |-> {}, result |-> {}]
    ELSE IF doc.kind # "mapping"
    THEN [outcome |-> "ValidationError", message |-> "Invalid YAML format: Expected a dictionary.",
          missing |-> {}, result |-> {}]
    ELSE IF required_keys \ doc.keys # {}
    THEN [outcome |-> "ValidationError", message |-> "Custom configuration missing required keys",
          missing |-> required_keys \ doc.keys, result |-> {}]
    ELSE [outcome |-> "returned", message |-> "", missing |-> {}, result |-> SafeLoad(doc)]

\* ------------------------------------------- request models and generate_map
\* Texts are sequences of characters; an extension is one item.
Alnum == {"a", "b", "m", "p", "x", "1", "2", "png", "svg"}

Whitespace == {" "}

\* str.strip()
RECURSIVE strip(_)
strip(text) ==
    IF text = <<>> THEN <<>>
    ELSE IF text[1] \in Whitespace THEN strip(Tail(text))
    ELSE IF text[Len(text)] \in Whitespace THEN strip(SubSeq(text, 1, Len(text) - 1))
    ELSE text

\* PurePosixPath(text).parts without the root: the segments between
\* separators, empty ones dropped.
RECURSIVE parts(_)
parts(text) ==
    IF text = <<>> THEN <<>>
    ELSE LET seps == {i \in 1..Len(text) : text[i] = "/"}
         IN  IF seps = {} THEN <<text>>
             ELSE LET i == CHOOSE j \in seps : \A k \in seps : j <= k
                      rest == parts(SubSeq(text, i + 1, Len(text)))
                  IN  IF i = 1 THEN rest ELSE <<SubSeq(text, 1, i - 1)>> \o rest

\* Path(text).is_absolute()
is_absolute(text) == text # <<>> /\ text[1] = "/"

\* The options of a call: None, or an object with output_filename and
\* output_format.  PlottingOptions has no location_col_override and no
\* value_col_override attribute (request_models.py 40-44); overrides tells
\* whether the object is of a subclass that adds them.
NoOptions ==
    [present |-> FALSE, overrides |-> FALSE, filename_given |-> FALSE,
     output_filename |-> <<>>, output_format |-> "png"]

PlottingOptions(filename_given, output_filename, output_format) ==
    [present |-> TRUE, overrides |-> FALSE, filename_given |-> filename_given,
     output_filename |-> output_filename, output_format |-> output_format]

WithOverrides(options) == [options EXCEPT !.overrides = TRUE]

\* GenerateMapRequest.validate_output_filename (lines 67-98): the options
\* of the request, or ValueError.
validate_output_filename(v, allow_arbitrary_output_path) ==
    IF v.present /\ v.filename_given /\ v.output_filename # <<>>
    THEN LET filename == strip(v.output_filename)
         IN  IF filename = <<>>
             THEN [outcome |-> "ValueError", options |-> v]
             ELSE IF is_absolute(filename) \/ \E i \in DOMAIN parts(filename) :
                                                   parts(filename)[i] = <<".", ".">>
             THEN [outcome |-> "ValueError", options |-> v]
             ELSE IF ~allow_arbitrary_output_path /\ \E i \in DOMAIN filename : filename[i] = "/"
             THEN [outcome |-> "ValueError", options |-> v]
             ELSE [outcome |-> "accepted", options |-> [v EXCEPT !.output_filename = filename]]
    ELSE [outcome |-> "accepted", options |-> v]

OUTPUT_DIR == << <<"output_maps">> >>

\* OUTPUT_DIR / output_filename
PathJoin(dir, name) ==
    IF is_absolute(name) THEN << <<"/">> >> \o parts(name) ELSE dir \o parts(name)

SafeFilenameBaseUnchanged(output_filename_base) == output_filename_base

\* "".join(c for c in output_filename_base if c.isalnum() or c in ('_', '-'))
SafeFilenameBase(output_filename_base) ==
    SelectSeq(output_filename_base, LAMBDA c : c \in Alnum \cup {"_", "-"})

NoOutputPath == <<>>

\* generate_map(config, data_df, options) (lines 91-179) with collaborators
\* that behave as collaborators says: the outcome and the path written.
generate_map(options, collaborators) ==
    IF options.present /\ ~options.overrides
    THEN [outcome |-> "MapGenerationError", stage |-> "options", output_path |-> NoOutputPath]
    ELSE IF ~FigureCreated(collaborators)
    THEN [outcome |-> "MapGenerationError", stage |-> "plotter", output_path |-> NoOutputPath]
    ELSE IF options.present /\ options.filename_given /\ options.output_filename # <<>>
    THEN LET safe_filename_base == SafeFilenameBase(options.output_filename)
         IN  IF safe_filename_base = <<>>
             THEN [outcome |-> "MapGenerationError", stage |-> "sanitization",
                   output_path |-> NoOutputPath]
             ELSE IF collaborators # "ok"
             THEN [outcome |-> "MapGenerationError", stage |-> "savefig",
                   output_path |-> NoOutputPath]
             ELSE [outcome |-> "returned", stage |-> "",
                   output_path |-> PathJoin(OUTPUT_DIR,
                                            safe_filename_base \o <<".", options.output_format>>)]
    ELSE [outcome |-> "returned", stage |-> "", output_path |-> NoOutputPath]

\* ------------------------------------------------------ service operations
NoService ==
    [op |-> "", key |-> "", doc |-> Document("", {}), options |-> NoOptions,
     allow |-> FALSE, collaborators |-> "", data |-> "", outcome |-> "",
     read_file |-> FALSE, result |-> {}, missing |-> {}, message |-> "",
     handler |-> "", called |-> <<>>, map_id |-> 0, output_path |-> NoOutputPath]

\* One call of ConfigService.get_configuration.
GetConfiguration ==
    /\ svc_ops < MaxRequests
    /\ \E key \in Keys, file \in FileOutcomes :
         LET r == get_configuration(config_cache, key, file)
         IN  /\ config_cache' = r.cache
             /\ svc_last' = [NoService EXCEPT !.op = "get_configuration", !.key = key,
                                              !.outcome = r.outcome,
                                              !.read_file = r.read_file,
                                              !.result = r.result]
    /\ svc_ops' = svc_ops + 1
    /\ UNCHANGED <<renderVars, joinVars, clipVars, cacheVars, mapVars, raceVars, output_files>>

\* One call of ConfigService.validate_custom_configuration.
ValidateCustomConfiguration ==
    /\ svc_ops < MaxRequests
    /\ \E doc \in Documents :
         LET r == validate_custom_configuration(doc)
         IN  svc_last' = [NoService EXCEPT !.op = "validate_custom_configuration",
                                           !.doc = doc, !.outcome = r.outcome,
                                           !.message = r.message, !.missing = r.missing,
                                           !.result = r.result]
    /\ svc_ops' = svc_ops + 1
    /\ UNCHANGED <<renderVars, joinVars, clipVars, cacheVars, mapVars, raceVars,
                   config_cache, output_files>>

\* The output file names a caller can give.
OutputFilenames ==
    {<<>>, <<" ">>, <<"m", "a", "p">>, <<" ", "m", "a", "p", " ">>, <<"m", "-", "1">>,
     <<"/", "x">>, <<".", ".", "/", "x">>, <<"a", "/", "b">>, <<"?">>}

OutputFormats == {"png", "svg"}

GivenOptions ==
    {NoOptions} \cup {PlottingOptions(FALSE, <<>>, "png")}
        \cup {PlottingOptions(TRUE, f, fmt) : f \in OutputFilenames, fmt \in OutputFormats}

\* The construction of a GenerateMapRequest: its options validator.
NewGenerateMapRequest ==
    /\ svc_ops < MaxRequests
    /\ \E v \in GivenOptions, allow \in BOOLEAN :
         LET r == validate_output_filename(v, allow)
         IN  svc_last' = [NoService EXCEPT !.op = "GenerateMapRequest", !.allow = allow,
                                           !.options = v, !.outcome = r.outcome,
                                           !.output_path = r.options.output_filename]
    /\ svc_ops' = svc_ops + 1
    /\ UNCHANGED <<renderVars, joinVars, clipVars, cacheVars, mapVars, raceVars,
                   config_cache, output_files>>

\* plt.savefig(output_path) has written the file when generate_map returns
\* a path.
Written(files, generated) ==
    IF generated.outcome = "returned" /\ generated.output_path # NoOutputPath
    THEN files \cup {generated.output_path}
    ELSE files

\* One call of MapService.generate_map, with options of PlottingOptions or
\* of a subclass that has the override attributes.
GenerateMap ==
    /\ svc_ops < MaxRequests
    /\ \E given \in GivenOptions, overrides \in BOOLEAN, collaborators \in GenerationOutcomes :
         LET options == IF overrides /\ given.present THEN WithOverrides(given) ELSE given
             r == generate_map(options, collaborators)
         IN  /\ output_files' = Written(output_files, r)
             /\ svc_last' = [NoService EXCEPT !.op = "generate_map", !.options = options,
                                              !.collaborators = collaborators,
                                              !.outcome = r.outcome, !.message = r.stage,
                                              !.output_path = r.output_path]
    /\ svc_ops' = svc_ops + 1
    /\ UNCHANGED <<renderVars, joinVars, clipVars, cacheVars, mapVars, raceVars, config_cache>>

\* The fields without a default of the response models
\* (response_models.py 7-18).
ErrorDetailRequired == {"code", "message"}

GenerateMapResponseRequired == {"success", "message"}

\* The model can be constructed from the keyword arguments given.
Constructs(required, given) == required \subseteq given

\* The options of a constructed request: the validator has accepted them.
RequestOptions ==
    {validate_output_filename(v, FALSE).options :
        v \in {g \in {NoOptions, PlottingOptions(TRUE, <<" ", "m", "a", "p", " ">>, "png")} :
                  validate_output_filename(g, FALSE).outcome = "accepted"}}

\* One call of MapService.generate_map_from_request (lines 181-264).
GenerateMapFromRequest ==
    /\ svc_ops < MaxRequests
    /\ \E key \in Keys \cup {""}, file \in FileOutcomes, options \in RequestOptions,
          collaborators \in {"ok", "plot_RuntimeError"} :
         LET configured == get_configuration(config_cache, key, file)
             generated == generate_map(options, collaborators)
             reached == key # "" /\ configured.outcome = "returned"
             handler ==
                 IF key = "" THEN "validation_error"
                 ELSE IF configured.outcome = "ValidationError" THEN "validation_error"
                 ELSE IF configured.outcome = "ConfigurationError" THEN "configuration_error"
                 ELSE IF generated.outcome = "MapGenerationError" THEN "map_generation_error"
                 ELSE IF Constructs(GenerateMapResponseRequired,
                                    {"map_id", "status", "message", "file_path"})
                 THEN ""
                 ELSE "unexpected_error"
             responds ==
                 handler # "" =>
                     /\ Constructs(ErrorDetailRequired, {"type", "message"})
                     /\ Constructs(GenerateMapResponseRequired, {"status", "error"})
         IN  /\ config_cache' =
                    IF reached
                    THEN [configured.cache EXCEPT
                              ![key] = CachedEntry(configured.result \cup {<<"geography_key", key>>})]
                    ELSE IF key = "" THEN config_cache ELSE configured.cache
             /\ output_files' = IF reached THEN Written(output_files, generated)
                                ELSE output_files
             /\ svc_last' = [NoService EXCEPT
                                !.op = "generate_map_from_request", !.key = key,
                                !.options = options,
                                !.collaborators = IF reached THEN collaborators ELSE "",
                                !.handler = handler,
                                !.outcome = IF responds THEN "response"
                                            ELSE "pydantic.ValidationError",
                                !.output_path = IF reached THEN generated.output_path
                                                ELSE NoOutputPath]
    /\ svc_ops' = svc_ops + 1
    /\ UNCHANGED <<renderVars, joinVars, clipVars, cacheVars, mapVars, raceVars>>

\* The data a caller can pass to validate_data.
DataInputs == {"valid", "empty", "bad_value_type"}

\* The custom configurations, the resource file outcomes and the
\* collaborator outcomes that the wrappers are called with.
WrapperDocuments ==
    {Document("malformed", {}), Document("mapping", required_keys),
     Document("mapping", required_keys \ {"geo_join_column"})}

WrapperFileOutcomes == {"ok", "YAMLError"}

WrapperOutcomes == {"ok", "init_ValueError", "savefig_OSError"}

\* validate_data(data, location_col, value_col) (lines 268-295).
validate_data(data) == IF data = "valid" THEN "returned" ELSE "ValidationError"

\* The three steps of generate_map_from_key and generate_map_from_config
\* after the configuration step gave configured.
ValidateAndGenerate(op, configured, data, map_id, collaborators, first) ==
    IF configured.outcome # "returned"
    THEN /\ svc_last' = [NoService EXCEPT !.op = op, !.outcome = configured.outcome,
                                          !.called = <<first>>]
         /\ UNCHANGED mapVars
    ELSE IF validate_data(data) # "returned"
    THEN /\ svc_last' = [NoService EXCEPT !.op = op, !.data = data,
                                          !.outcome = validate_data(data),
                                          !.called = <<first, "validate_data">>]
         /\ UNCHANGED mapVars
    ELSE /\ generate_map_internal(map_id, collaborators, <<137>>)
         /\ UNCHANGED map_ops
         /\ svc_last' = [NoService EXCEPT
                            !.op = op, !.data = data, !.collaborators = collaborators,
                            !.outcome = IF collaborators = "ok" THEN "returned"
                                        ELSE "MapGenerationError",
                            !.map_id = IF collaborators = "ok" THEN map_id ELSE 0,
                            !.called = <<first, "validate_data", "generate_map_internal">>]

\* One call of MapService.generate_map_from_key (lines 333-346).
GenerateMapFromKey ==
    /\ svc_ops < MaxRequests
    /\ \E key \in Keys, file \in WrapperFileOutcomes, data \in DataInputs,
          map_id \in MapIds \ map_issued, collaborators \in WrapperOutcomes :
         LET configured == get_configuration(config_cache, key, file)
         IN  /\ config_cache' = configured.cache
             /\ ValidateAndGenerate("generate_map_from_key", configured, data, map_id,
                                    collaborators, "get_configuration")
    /\ svc_ops' = svc_ops + 1
    /\ UNCHANGED <<renderVars, joinVars, clipVars, cacheVars, raceVars, output_files>>

\* One call of MapService.generate_map_from_config (lines 348-361).
GenerateMapFromConfig ==
    /\ svc_ops < MaxRequests
    /\ \E doc \in WrapperDocuments, data \in DataInputs,
          map_id \in MapIds \ map_issued, collaborators \in WrapperOutcomes :
         ValidateAndGenerate("generate_map_from_config", validate_custom_configuration(doc),
                             data, map_id, collaborators, "validate_custom_configuration")
    /\ svc_ops' = svc_ops + 1
    /\ UNCHANGED <<renderVars, joinVars, clipVars, cacheVars, raceVars,
                   config_cache, output_files>>

\* The services as constructed: an empty configuration cache.
ServiceInit ==
    /\ config_cache = [key \in AvailableKeys |-> NotCached]
    /\ output_files = {}
    /\ svc_ops = 0
    /\ svc_last = NoService

ServiceIdle ==
    /\ config_cache = [key \in AvailableKeys |-> NotCached]
    /\ output_files = {}
    /\ svc_ops = MaxRequests
    /\ svc_last = NoService

\* ---------------------------------------------------------- specifications
Init == RenderInit /\ JoinIdle /\ ClipIdle /\ CacheIdle /\ MapIdle /\ RaceIdle /\ ServiceIdle

Next ==
    \/ PrepareSubsets
    \/ SetupNormalization
    \/ PlotNeighborCountries
    \/ PlotNeighborLevel1
    \/ PlotMainBase
    \/ PlotMainData
    \/ PlotMainLakes
    \/ CreateInset
    \/ AddColorbar
    \/ LabelMainRegion
    \/ LabelInsetRegion
    \/ Finish

Spec == Init /\ [][Next]_vars

InitJoin == JoinInit /\ RenderIdle /\ ClipIdle /\ CacheIdle /\ MapIdle /\ RaceIdle /\ ServiceIdle

NextJoin == PrepareGeoData

SpecJoin == InitJoin /\ [][NextJoin]_vars

InitClip == ClipInit /\ RenderIdle /\ JoinIdle /\ CacheIdle /\ MapIdle /\ RaceIdle /\ ServiceIdle

NextClip == CallClipped

SpecClip == InitClip /\ [][NextClip]_vars

InitCache == CacheInit /\ RenderIdle /\ JoinIdle /\ ClipIdle /\ MapIdle /\ RaceIdle /\ ServiceIdle

NextCache == GetShapefile

SpecCache == InitCache /\ [][NextCache]_vars

InitMaps == MapInit /\ RenderIdle /\ JoinIdle /\ ClipIdle /\ CacheIdle /\ RaceIdle /\ ServiceIdle

NextMaps ==
    \/ GenerateMapInternal
    \/ GetMapImage
    \/ GetMapImageBase64

SpecMaps == InitMaps /\ [][NextMaps]_vars

InitRace == RaceInit /\ RenderIdle /\ JoinIdle /\ ClipIdle /\ CacheIdle /\ MapIdle /\ ServiceIdle

NextRace ==
    \/ CheckExists
    \/ Download
    \/ BeginWrite
    \/ FinishWrite
    \/ FailWrite

SpecRace == InitRace /\ [][NextRace]_vars

InitConfig ==
    ServiceInit /\ RenderIdle /\ JoinIdle /\ ClipIdle /\ CacheIdle /\ MapIdle /\ RaceIdle

NextConfig ==
    \/ GetConfiguration
    \/ ValidateCustomConfiguration
    \/ GenerateMapFromRequest

SpecConfig == InitConfig /\ [][NextConfig]_vars

NextOutput ==
    \/ NewGenerateMapRequest
    \/ GenerateMap

SpecOutput == InitConfig /\ [][NextOutput]_vars

InitWrappers ==
    ServiceInit /\ MapInit /\ RenderIdle /\ JoinIdle /\ ClipIdle /\ CacheIdle /\ RaceIdle

NextWrappers ==
    \/ GenerateMapFromKey
    \/ GenerateMapFromConfig

SpecWrappers == InitWrappers /\ [][NextWrappers]_vars

\* ------------------------------------------------------------------ claims
Started == pc \notin {"idle", "start", "returned"}

InsetDefs == {config.inset_level1_regions[i] : i \in 1..Len(config.inset_level1_regions)}

LandDraws == {d \in Range(main_draws) : d.layer \in {"base", "data"}}

\* C1: with main_level1_codes null, no region drawn in the main view (base
\* pass, data pass or label) has a code listed in any inset definition or
\* drawn in any created inset.
C1_DefaultExclusion ==
    config.main_level1_codes.kind = "null" =>
        LET main_codes == Codes(main_view_gdf)
                          \cup UNION {d.items : d \in LandDraws}
                          \cup {main_labels[i].code : i \in 1..Len(main_labels)}
        IN  /\ \A inset \in InsetDefs : main_codes \cap inset.codes = {}
            /\ \A k \in 1..Len(inset_axes_list) :
                   main_codes \cap Codes(inset_axes_list[k].gdf) = {}

\* A finished render with main_level1_codes null in which the second inset
\* definition was created and the main view was drawn.
C1_Witness ==
    /\ pc = "done"
    /\ config.main_level1_codes.kind = "null"
    /\ Len(config.inset_level1_regions) = 2
    /\ config.inset_level1_regions[1].codes = {"Z"}
    /\ inset_axes_list # <<>>
    /\ LandDraws # {}

\* The data pass is over: the call is past it, or an exception left the
\* call after the base pass was drawn.
DataPassOver ==
    \/ pc \in {"lakes", "insets", "label_main", "label_insets", "finish", "done"}
    \/ pc = "raised" /\ \E d \in Range(main_draws) : d.layer = "base"

\* The colourbar was added: the call is in or past the label pass.
ColorbarAdded ==
    \/ pc \in {"label_main", "label_insets", "finish", "done"}
    \/ pc = "raised" /\ error = "TypeError"

\* C3: every main-view row is a row of the input with its value untouched
\* (NaN stays NaN); once the data pass is over, every main-view region is
\* in the base pass with the missing style, exactly the regions with a
\* present value are in the data pass, and the topmost of the two passes
\* over a region is the data pass if it has a value and the base pass if not.
C3_MissingStyle ==
    DataPassOver =>
        \A i \in 1..Len(main_view_gdf) :
            LET r == main_view_gdf[i]
                over == {d \in LandDraws : r.code \in d.items}
                top == CHOOSE d \in over : \A e \in over : e.zorder <= d.zorder
            IN  /\ r \in Range(level1_gdf.rows)
                /\ \E d \in over : d.layer = "base" /\ d.style = "missing"
                /\ (\E d \in over : d.layer = "data") <=> (r.value # NaN)
                /\ top.style = IF r.value = NaN THEN "missing" ELSE "cmap"
                /\ top.layer = IF r.value = NaN THEN "base" ELSE "data"

\* A finished render whose main view holds a region without a value and a
\* region whose value is 0.
C3_Witness ==
    /\ pc = "done"
    /\ \E i \in 1..Len(main_view_gdf) : main_view_gdf[i].value = NaN
    /\ \E i \in 1..Len(main_view_gdf) : main_view_gdf[i].value = {0}

\* The present values of the rows of the input whose country is a target.
TargetValues ==
    UNION {level1_gdf.rows[i].value :
               i \in {k \in 1..Len(level1_gdf.rows) :
                          level1_gdf.rows[k].iso \in config.country_codes}}

\* The norms handed to the data pass, to the insets and to the colourbar.
NormsUsed ==
    {d.norm : d \in {e \in Range(main_draws) : e.layer = "data"}}
    \cup {inset_axes_list[k].draws[1].norm : k \in 1..Len(inset_axes_list)}
    \cup (IF ColorbarAdded THEN {colorbar} ELSE {})

\* C4: the data pass, every inset and the colourbar are handed one and the
\* same norm, and when the target set holds a value its bounds are the
\* minimum and the maximum of the present values of the whole target set.
C4_OneNorm ==
    Started =>
        /\ Cardinality(NormsUsed) <= 1
        /\ TargetValues # {} =>
               \A n \in NormsUsed :
                   /\ n.scaled
                   /\ n.vmin = SetMin(TargetValues)
                   /\ n.vmax = SetMax(TargetValues)

\* A finished render with a data pass and an inset, where the largest value
\* of the target set is shown only in the inset.
C4_Witness ==
    /\ pc = "done"
    /\ \E d \in Range(main_draws) : d.layer = "data"
    /\ inset_axes_list # <<>>
    /\ PresentValues(main_view_gdf) # {}
    /\ SetMax(PresentValues(main_view_gdf)) < SetMax(TargetValues)
    /\ SetMax(PresentValues(inset_axes_list[1].gdf)) = SetMax(TargetValues)

LayerRank(layer) ==
    CASE layer = "countries" -> 1
      [] layer = "neighbors_l1" -> 2
      [] layer = "base" -> 3
      [] layer = "data" -> 4
      [] OTHER -> 5

\* C5: the plot calls made on the main axes come in the order neighbour
\* countries, neighbour level-1 regions, base pass, data pass, water bodies
\* and carry strictly increasing z-orders; the data pass is above the base.
C5_ZOrders ==
    \A i \in 1..Len(main_draws), j \in 1..Len(main_draws) :
        i < j => /\ LayerRank(main_draws[i].layer) < LayerRank(main_draws[j].layer)
                 /\ main_draws[i].zorder < main_draws[j].zorder

\* All five passes were drawn.
C5_Witness == Len(main_draws) = 5

\* All but the neighbour level-1 pass were drawn (a skipped layer).
C5_WitnessSkipped ==
    /\ Len(main_draws) = 4
    /\ \A i \in 1..4 : main_draws[i].layer # "neighbors_l1"

\* C6: no label of the main view stacks below a fill layer of the main axes.
C6_LabelsAboveFills ==
    \A i \in 1..Len(main_labels), j \in 1..Len(main_draws) :
        main_draws[j].zorder <= main_labels[i].zorder


\* p lies in the part of the bounding box of the cells that reaches the
\* fraction n/FracDen of its extent from the named side and spans the whole
\* of the other axis.
InSideFraction(p, cells, side, n) ==
    LET x0 == SetMin({2 * c[1] : c \in cells})
        x1 == SetMax({2 * c[1] + 2 : c \in cells})
        y0 == SetMin({2 * c[2] : c \in cells})
        y1 == SetMax({2 * c[2] + 2 : c \in cells})
    IN  /\ x0 <= p[1] /\ p[1] <= x1 /\ y0 <= p[2] /\ p[2] <= y1
        /\ side = "top" => FracDen * (y1 - p[2]) <= n * (y1 - y0)
        /\ side = "bottom" => FracDen * (p[2] - y0) <= n * (y1 - y0)
        /\ side = "left" => FracDen * (p[1] - x0) <= n * (x1 - x0)
        /\ side = "right" => FracDen * (x1 - p[1]) <= n * (x1 - x0)

\* Some cell of the geometry lies in that part of the bounding box.
MeetsSideFraction(cells, side, n) ==
    \E c \in cells : /\ InSideFraction(<<2 * c[1], 2 * c[2]>>, cells, side, n)
                     /\ InSideFraction(<<2 * c[1] + 2, 2 * c[2] + 2>>, cells, side, n)

LastRule == RuleOf(config, last_label.code)

LastOffset == <<last_label.xy[1] + LastRule.offset[1], last_label.xy[2] + LastRule.offset[2]>>

LastEntry == LastRule.clip

LastEntryWellFormed ==
    /\ LastEntry.shape = "list2"
    /\ LastEntry.side \in Sides
    /\ LastEntry.percentage.kind = "num"

LastRegionValid ==
    \A i \in 1..Len(main_view_gdf) :
        main_view_gdf[i].code = last_label.code => main_view_gdf[i].valid

\* C8 as stated: a region listed in the offsets map (and small_regions) and
\* in the clipped-regions map gets the offset strategy and its anchor is
\* not the clipped sub-region point.
C8_OffsetBeforeClipped ==
    (/\ last_label.ax = "main"
     /\ LastRule.small /\ LastRule.offset # <<>>
     /\ LastEntry.shape # "absent")
        => last_label.kind = "annotate" /\ last_label.branch # "clipped"

\* C8 amended: the clipped-regions map decides the anchor and the offsets
\* map (with small_regions) decides the drawing, independently: the anchor
\* is the clipped sub-region point exactly for a well-formed entry whose
\* clip meets the geometry, and a region listed in both maps is annotated
\* at that clipped anchor + offset.
C8_ClippedAnchorThenOffset ==
    last_label.ax = "main" =>
        LET cells == FineCells(Geometry(last_label.code))
        IN  /\ last_label.kind = "annotate" <=> (LastRule.small /\ LastRule.offset # <<>>)
            /\ last_label.branch = "clipped" =>
                   /\ LastEntryWellFormed
                   /\ InSideFraction(last_label.xy, cells, LastEntry.side,
                                     LastEntry.percentage.n)
            /\ (/\ LastEntryWellFormed /\ LastRegionValid
                /\ MeetsSideFraction(cells, LastEntry.side, LastEntry.percentage.n))
                   => last_label.branch = "clipped"
            /\ LastEntry.shape # "list2" => last_label.branch = "default"
            /\ last_label.kind = "annotate" => last_label.xytext = LastOffset

\* A region in small_regions, offsets and clipped_regions was annotated from
\* its clipped sub-region point.
C8_Witness ==
    /\ last_label.ax = "main"
    /\ last_label.kind = "annotate"
    /\ last_label.branch = "clipped"
    /\ LastEntry.side = "top"

\* C10: no error leaves the render from the placement of a label, whatever
\* the clipped_regions entry of the region is.
C10_NoErrorSurfaces == ~(pc = "raised" /\ error = "TypeError")

\* ------------------------------------------------------- claims: the join
\* The rows of the admin-1 table that pass the target-country filter.
FilteredIndices ==
    {i \in 1..Len(all_level1_gdf.rows) :
         all_level1_gdf.rows[i].iso_a2 \in target_country_codes}

C9_ClippedPoint ==
    (/\ clip_pc = "returned"
     /\ clip_args.clip_side \in Sides
     /\ clip_args.clip_percentage.kind = "num") =>
        LET cells == FineCells(clip_args.geometry)
            side == clip_args.clip_side
            n == clip_args.clip_percentage.n
        IN  /\ clip_result.branch = "clipped" =>
                   InSideFraction(clip_result.point, cells, side, n)
            /\ (MeetsSideFraction(cells, side, n) /\ clip_args.valid)
                   => clip_result.branch = "clipped"
            /\ n > 0 => MeetsSideFraction(cells, side, n)
            /\ (/\ clip_args.geometry = {<<0, 0>>} /\ side = "top" /\ 2 * n = FracDen
                /\ clip_result.branch = "clipped")
                   => /\ FracDen <= clip_result.point[2]
                      /\ clip_result.point[2] <= 2 * FracDen

\* The unit square clipped to its top half returned the lowest leftmost
\* interior point of that half.
C9_Witness ==
    /\ clip_pc = "returned"
    /\ clip_args.geometry = {<<0, 0>>}
    /\ clip_args.clip_side = "top"
    /\ 2 * clip_args.clip_percentage.n = FracDen
    /\ clip_result.branch = "clipped"
    /\ clip_result.point = <<1, FracDen + 1>>

\* The label text the settings ask for: the code, and the placeholder for
\* an absent value or the value as text.
AskedText(row) ==
    <<row.code, IF row.value = NaN THEN config.na_value_text
                ELSE ToString(SetMin(row.value))>>

\* The label calls made on the axes of inset k, in call order.
LabelsOfInset(k) == SelectSeq(inset_labels, LAMBDA l : l.inset = k)

C12_LayerFailuresCaught == error # "PlotError"

\* The level-1 table has rows and the value and code columns.
TableUsable ==
    /\ level1_gdf.rows # <<>>
    /\ {"value", "postal"} \subseteq level1_gdf.columns

\* C13: when the configured country filter matches no feature the call
\* fails with a ConfigurationError; it does not return normally.
C13_EmptyFilterRaises ==
    (/\ pc \notin {"idle", "start"}
     /\ TableUsable
     /\ "iso_a2" \in level1_gdf.columns
     /\ config.country_codes # {}
     /\ TargetRows(level1_gdf, config) = <<>>)
        => (pc = "raised" /\ error = "ConfigurationError")

\* C14: when the country-code column is absent from the table the filter
\* is skipped and the render goes on with the unfiltered rows.
C14_MissingColumnProceeds ==
    (/\ pc \notin {"idle", "start"}
     /\ TableUsable
     /\ "iso_a2" \notin level1_gdf.columns
     /\ config.country_codes # {})
        => (pc # "returned" /\ target_l1_gdf = level1_gdf.rows)

\* key.strip() for the keys of the value dictionary.
Stripped(key) == IF key = " Ohio" THEN "Ohio" ELSE key

\* C15: a value key that equals the name of a geometry row after
\* trimming the surrounding whitespace attaches its value to that row.
C15_NormalizedKeysMatch ==
    (join_pc = "returned" /\ ~states_gdf.is_none) =>
        \A i \in 1..Len(states_gdf.rows) :
            (\E k \in DOMAIN data_dict : Stripped(k) = states_gdf.rows[i].name)
                => states_gdf.rows[i].value # NaN

\* The water bodies drawn so far, on the main axes and in the insets.
LakesDrawn ==
    UNION ({d.items : d \in {m \in Range(main_draws) : m.layer = "lakes"}}
           \cup UNION {{d.items : d \in {m \in Range(inset_axes_list[k].draws) :
                                             m.layer = "inset_lakes"}} :
                           k \in 1..Len(inset_axes_list)})

\* C16: every water body drawn, in the main view or in an inset, has its
\* name in the configured allow-list include_lake_names.
C16_LakesAllowListed == LakesDrawn \subseteq config.include_lake_names

\* The tables and settings handed to the render.
RenderInputs == <<config, level1_gdf, lakes_gdf, countries_gdf, neighbors_level1_gdf>>

\* C17: no step of the render changes a table or the settings it was
\* given, whether the call completes or aborts; and the subsets it holds
\* are those a fresh selection from the inputs as they are now gives:
\* the target rows, the main view, the rows of each inset and the
\* neighbour countries and water bodies drawn on the main axes.
C17_InputsUnchanged ==
    /\ [][RenderInputs' = RenderInputs]_vars
    /\ [](Started =>
            /\ target_l1_gdf = TargetRows(level1_gdf, config)
            /\ main_view_gdf = MainView(TargetRows(level1_gdf, config), config)
            /\ \A k \in 1..Len(inset_axes_list) :
                   inset_axes_list[k].gdf =
                       SelectSeq(TargetRows(level1_gdf, config),
                                 LAMBDA r : r.code \in inset_axes_list[k].codes)
            /\ \A d \in Range(main_draws) :
                   /\ d.layer = "countries" => d.items = NeighborCountries(countries_gdf, config)
                   /\ d.layer = "neighbors_l1" =>
                          d.items = NeighborLevel1(neighbors_level1_gdf, config)
                   /\ d.layer = "lakes" => d.items = MainLakes(lakes_gdf, config))

\* A finished render that drew lakes and neighbouring regions handed in
\* under another CRS: both were reprojected for the plot.
C17_Witness ==
    /\ pc = "done"
    /\ lakes_gdf.crs = OtherCrs
    /\ \E d \in Range(main_draws) : d.layer = "lakes"
    /\ neighbors_level1_gdf.crs = OtherCrs
    /\ \E d \in Range(main_draws) : d.layer = "neighbors_l1"
    /\ inset_axes_list # <<>>

\* The file name of the URL of the latest get_shapefile call.
LastFilename ==
    IF cache_last.url.path = <<>> THEN ""
    ELSE cache_last.url.path[Len(cache_last.url.path)]

\* C18: get_shapefile returns cache_dir/<file name of the URL path>; when
\* that file existed the call returns it with no download and no write;
\* when it did not, the call makes exactly one download and, if it
\* returns, has written the content served for the URL to that path; a
\* call for a URL that an earlier call returned for returns the same
\* path without a download.
C18_CacheThenDownloadOnce ==
    cache_last.outcome # "" =>
        /\ cache_last.outcome = "returned" => cache_last.path = <<"cache_dir", LastFilename>>
        /\ cache_last.existed =>
               /\ cache_last.outcome = "returned"
               /\ cache_last.downloads = 0
               /\ ~cache_last.wrote
        /\ (~cache_last.existed /\ LastFilename # "") =>
               /\ cache_last.downloads = 1
               /\ cache_last.outcome = "returned" =>
                      /\ cache_last.wrote
                      /\ cache_files[LastFilename] = File(cache_last.url.host)
        /\ cache_last.fetched_before =>
               /\ cache_last.outcome = "returned"
               /\ cache_last.downloads = 0
               /\ ~cache_last.wrote

\* A third call for a URL whose file the manager itself downloaded:
\* served from the cache.
C18_Witness ==
    /\ cache_calls = MaxCalls
    /\ cache_last.fetched_before
    /\ cache_last.outcome = "returned"
    /\ cache_last.downloads = 0
    /\ cache_files[LastFilename] = File(cache_last.url.host)

\* A generate_map_internal call is being made in this step.
GenerationStep == map_ops' # map_ops /\ map_last'.op = "generate_map_internal"

\* C19: generate_map_internal returns an id exactly when the plotter's
\* construction, the plotting and the saving all succeeded, and then the
\* id was not in the store before and the store gains exactly the image
\* bytes under it; in every other case it raises MapGenerationError and
\* the store is as it was; the figure it created is closed again in both
\* cases.
C19_StoreOnlyOnSuccess ==
    [][GenerationStep =>
         /\ (map_last'.outcome = "returned") <=> (map_last'.collaborators = "ok")
         /\ map_last'.outcome = "returned" =>
                /\ ~map_storage[map_last'.map_id].present
                /\ map_storage' = [map_storage EXCEPT
                                       ![map_last'.map_id] = Stored(map_last'.bytes)]
         /\ map_last'.outcome # "returned" =>
                /\ map_last'.outcome = "MapGenerationError"
                /\ map_storage' = map_storage
         /\ open_figures' = open_figures]_vars

\* A generation whose savefig failed after an earlier one had stored a map.
C19_Witness ==
    /\ map_last.op = "generate_map_internal"
    /\ map_last.collaborators = "savefig_OSError"
    /\ map_last.outcome = "MapGenerationError"
    /\ \E i \in MapIds : map_storage[i].present
    /\ open_figures = 0

\* The number a base64 character stands for; 64 for the padding.
Base64Value(char) == (CHOOSE i \in 1..65 : Base64Alphabet[i] = char) - 1

\* The bytes that a base64 text of characters stands for.
RECURSIVE Base64Decoded(_)
Base64Decoded(text) ==
    IF Len(text) < 4 THEN <<>>
    ELSE LET v == [i \in 1..4 |-> Base64Value(text[i])]
             rest == Base64Decoded(SubSeq(text, 5, Len(text)))
         IN  IF v[3] = 64
             THEN <<v[1] * 4 + v[2] \div 16>> \o rest
             ELSE IF v[4] = 64
             THEN <<v[1] * 4 + v[2] \div 16, (v[2] % 16) * 16 + v[3] \div 4>> \o rest
             ELSE <<v[1] * 4 + v[2] \div 16, (v[2] % 16) * 16 + v[3] \div 4,
                    (v[3] % 4) * 64 + v[4]>> \o rest

\* C20: get_map_image(id) returns the bytes an earlier successful
\* generation stored for id, with 'image/png', exactly when there was such
\* a generation, and raises ResourceNotFoundError for every other id;
\* get_map_image_base64(id) returns a base64 text that stands for the same
\* bytes and raises in the same cases.
C20_RetrievalMatchesStore ==
    map_last.op \in {"get_map_image", "get_map_image_base64"} =>
        IF map_generated[map_last.map_id].present
        THEN /\ map_last.outcome = "returned"
             /\ map_last.op = "get_map_image" =>
                    /\ map_last.bytes = map_generated[map_last.map_id].bytes
                    /\ map_last.media_type = "image/png"
             /\ map_last.op = "get_map_image_base64" =>
                    /\ Len(map_last.text) % 4 = 0
                    /\ Base64Decoded(map_last.text) = map_generated[map_last.map_id].bytes
        ELSE map_last.outcome = "ResourceNotFoundError"

\* The base64 text of a stored image that begins like a PNG file.
C20_Witness ==
    /\ map_last.op = "get_map_image_base64"
    /\ map_last.outcome = "returned"
    /\ map_generated[map_last.map_id].bytes = <<137, 80, 78>>
    /\ map_last.text = <<"i", "V", "B", "O">>

\* C26: when the download or the write of a get_shapefile call fails, the
\* call raises and no file is left at the cache path, so that a later
\* call for the URL cannot report a cache hit on an incomplete file.
C26_FailureLeavesNoFile ==
    (cache_last.outcome = "raised" /\ LastFilename # "") =>
        ~cache_files[LastFilename].exists

\* C28: the file a get_shapefile call returns for a URL holds the content
\* served for that URL (files that were in the directory before the
\* manager was constructed, and incomplete files, set aside).
C28_ReturnedContentIsOwn ==
    (/\ cache_last.outcome = "returned"
     /\ cache_files[LastFilename].content \notin {"earlier", "incomplete"}) =>
        cache_files[LastFilename].content = cache_last.url.host

\* C29: in every interleaving of concurrent get_shapefile calls for one
\* URL, a call that reports a cache hit found a completely written file,
\* never one that another call is still writing or has left incomplete.
C29_HitOnlyOnCompleteFile ==
    \A p \in Callers :
        (concurrent_calls[p].at = "returned" /\ concurrent_calls[p].hit) =>
            concurrent_calls[p].saw # "incomplete"

\* The configuration step of the wrapper that the latest operation was.
FirstStep ==
    IF svc_last.op = "generate_map_from_key" THEN "get_configuration"
    ELSE "validate_custom_configuration"

\* C21: generate_map_from_key and generate_map_from_config obtain the
\* configuration, validate the data and generate the map by calling
\* generate_map, in this order, and stop at the first failure: the calls
\* made are a prefix of these three, a failed step is the last one made
\* and its error is the outcome, and otherwise the outcome is the id that
\* generate_map returned.
C21_ThreeStepsInOrder ==
    svc_last.op \in {"generate_map_from_key", "generate_map_from_config"} =>
        LET steps == <<FirstStep, "validate_data", "generate_map">>
        IN  /\ Len(svc_last.called) \in 1..3
            /\ svc_last.called = SubSeq(steps, 1, Len(svc_last.called))
            /\ Len(svc_last.called) = 1 =>
                   svc_last.outcome \in {"ValidationError", "ConfigurationError"}
            /\ Len(svc_last.called) = 2 => svc_last.outcome = "ValidationError"
            /\ Len(svc_last.called) = 3 =>
                   svc_last.outcome \in {"returned", "MapGenerationError"}

\* A get_configuration call is being made in this step.
GetConfigurationStep == svc_ops' # svc_ops /\ svc_last'.op = "get_configuration"

\* C22: get_configuration(key) raises ValidationError for a key that is
\* not available, without looking at the cache or a file; for an available
\* key with a cache entry it returns that entry without reading the file;
\* for one without an entry it reads the file and either stores and
\* returns the parsed mapping or raises ConfigurationError and leaves the
\* cache without an entry for the key.
C22_KeyCheckThenCacheThenFile ==
    [][GetConfigurationStep =>
         LET key == svc_last'.key
         IN  IF key \notin {"usa_states", "canada_provinces"}
             THEN /\ svc_last'.outcome = "ValidationError"
                  /\ ~svc_last'.read_file
                  /\ config_cache' = config_cache
             ELSE IF config_cache[key].present
             THEN /\ svc_last'.outcome = "returned"
                  /\ svc_last'.result = config_cache[key].mapping
                  /\ ~svc_last'.read_file
                  /\ config_cache' = config_cache
             ELSE /\ svc_last'.read_file
                  /\ svc_last'.outcome \in {"returned", "ConfigurationError"}
                  /\ svc_last'.outcome = "returned" =>
                         /\ svc_last'.result = Parsed(key)
                         /\ config_cache'[key] = [present |-> TRUE, mapping |-> Parsed(key)]
                         /\ \A k \in DOMAIN config_cache \ {key} :
                                config_cache'[k] = config_cache[k]
                  /\ svc_last'.outcome = "ConfigurationError" =>
                         /\ config_cache' = config_cache
                         /\ ~config_cache'[key].present]_vars

\* A third call that is served from the cache entry a load has made.
C22_Witness ==
    /\ svc_ops = MaxRequests
    /\ svc_last.op = "get_configuration"
    /\ svc_last.outcome = "returned"
    /\ ~svc_last.read_file
    /\ svc_last.result = Parsed(svc_last.key)
    /\ config_cache[svc_last.key].present

\* The keys the claim names as required.
ClaimedRequiredKeys ==
    {"geopackage_path", "geopackage_layer", "location_id_col", "location_name_col"}

\* C23: validate_custom_configuration returns the parsed mapping unchanged
\* for every YAML mapping that has the keys geopackage_path,
\* geopackage_layer, location_id_col and location_name_col, and raises
\* ValidationError for malformed YAML, for a document that is not a
\* mapping and for a mapping that lacks one of these keys, naming the
\* missing keys.
C23_FourKeysAccepted ==
    svc_last.op = "validate_custom_configuration" =>
        IF svc_last.doc.kind = "mapping" /\ ClaimedRequiredKeys \subseteq svc_last.doc.keys
        THEN /\ svc_last.outcome = "returned"
             /\ svc_last.result = {<<k, "v">> : k \in svc_last.doc.keys}
        ELSE /\ svc_last.outcome = "ValidationError"
             /\ svc_last.doc.kind = "mapping" =>
                    svc_last.missing = ClaimedRequiredKeys \ svc_last.doc.keys

\* C27: generate_map_from_request never raises: every outcome is returned
\* as a GenerateMapResponse.
C27_AlwaysAResponse ==
    svc_last.op = "generate_map_from_request" => svc_last.outcome = "response"

\* C30: the mapping that get_configuration(key) returns is the parsed
\* content of the key's configuration file, whatever requests were served
\* before.
C30_ReturnsParsedContent ==
    (svc_last.op = "get_configuration" /\ svc_last.outcome = "returned") =>
        svc_last.result = Parsed(svc_last.key)

\* The latest generate_map call was given an output filename.
FilenameGiven ==
    /\ svc_last.options.present
    /\ svc_last.options.filename_given
    /\ svc_last.options.output_filename # <<>>

\* C24: generate_map with an output filename in its options writes the
\* figure to a file in OUTPUT_DIR and returns; without options or without
\* a filename it writes nothing and returns; it raises MapGenerationError
\* only when the construction, the plotting or the saving failed.
C24_SavesWhenFilenameGiven ==
    svc_last.op = "generate_map" =>
        /\ svc_last.outcome = "MapGenerationError" => svc_last.collaborators # "ok"
        /\ svc_last.collaborators = "ok" =>
               /\ svc_last.outcome = "returned"
               /\ FilenameGiven =>
                      /\ svc_last.output_path # <<>>
                      /\ svc_last.output_path[1] = <<"output_maps">>
                      /\ svc_last.output_path \in output_files
               /\ ~FilenameGiven => svc_last.output_path = <<>>

\* The text without the blanks at its ends.
Trimmed(text) ==
    LET solid == {i \in 1..Len(text) : text[i] # " "}
    IN  IF solid = {} THEN <<>>
        ELSE SubSeq(text, CHOOSE i \in solid : \A j \in solid : i <= j,
                          CHOOSE i \in solid : \A j \in solid : i >= j)

\* The text has a component '..' between separators or ends.
HasParentComponent(text) ==
    \E i \in 1..(Len(text) - 1) :
        /\ text[i] = "." /\ text[i + 1] = "."
        /\ i = 1 \/ text[i - 1] = "/"
        /\ i + 1 = Len(text) \/ text[i + 2] = "/"

\* The reasons for which the claim has a given filename rejected, but for
\* emptiness.
UnsafeFilename(text, allow) ==
    \/ text # <<>> /\ text[1] = "/"
    \/ HasParentComponent(text)
    \/ ~allow /\ \E i \in 1..Len(text) : text[i] = "/"

\* A path directly inside the output directory whose name is letters,
\* digits, '_' and '-' followed by the extension.
SafelyInside(path) ==
    /\ Len(path) = 2
    /\ path[1] = <<"output_maps">>
    /\ Len(path[2]) >= 3
    /\ path[2][Len(path[2]) - 1] = "."
    /\ path[2][Len(path[2])] \in {"png", "svg"}
    /\ \A i \in 1..(Len(path[2]) - 2) :
           path[2][i] \in {"a", "b", "m", "p", "x", "1", "2", "_", "-"}

\* C25 as stated: GenerateMapRequest rejects every given output filename
\* that is empty after trimming, absolute, has a '..' component or has a
\* separator while arbitrary paths are disallowed, and every file that
\* generate_map has written is directly inside OUTPUT_DIR under a name of
\* letters, digits, '_' and '-'.
C25_AsStated ==
    /\ (/\ svc_last.op = "GenerateMapRequest"
        /\ svc_last.options.filename_given
        /\ \/ Trimmed(svc_last.options.output_filename) = <<>>
           \/ UnsafeFilename(Trimmed(svc_last.options.output_filename), svc_last.allow))
           => svc_last.outcome = "ValueError"
    /\ \A path \in output_files : SafelyInside(path)

\* C25: GenerateMapRequest rejects every output filename that is not empty
\* but blank after trimming, absolute, has a '..' component or has a
\* separator while arbitrary paths are disallowed; the empty string is
\* accepted like no filename; and every file that generate_map has written
\* is directly inside OUTPUT_DIR under a name of letters, digits, '_' and
\* '-'.
C25_NoWriteOutsideOutputDir ==
    /\ (/\ svc_last.op = "GenerateMapRequest"
        /\ svc_last.options.filename_given
        /\ svc_last.options.output_filename # <<>>
        /\ \/ Trimmed(svc_last.options.output_filename) = <<>>
           \/ UnsafeFilename(Trimmed(svc_last.options.output_filename), svc_last.allow))
           => svc_last.outcome = "ValueError"
    /\ (/\ svc_last.op = "GenerateMapRequest"
        /\ svc_last.options.filename_given
        /\ svc_last.options.output_filename = <<>>)
           => svc_last.outcome = "accepted"
    /\ \A path \in output_files : SafelyInside(path)

\* A request with the filename '../x' is rejected after a direct
\* generate_map call with that filename has written output_maps/x.png.
C25_Witness ==
    /\ svc_last.op = "GenerateMapRequest"
    /\ svc_last.options.output_filename = <<".", ".", "/", "x">>
    /\ svc_last.outcome = "ValueError"
    /\ << <<"output_maps">>, <<"x", ".", "png">> >> \in output_files

====
